---- MODULE Spec2Model ----
(***************************************************************************)
(* A model of the pysysim simulation kernel (src/src/sysim): signals with  *)
(* the two-phase next/current update, the connection graph, edge events,   *)
(* delayed and re-triggerable commits, and the simulator that drives them  *)
(* on a simpy environment.  The simpy environment is modelled by its       *)
(* event queue: entries ordered by (time, priority, insertion), one        *)
(* env.step() per Step action.                                             *)
(***************************************************************************)
EXTENDS Integers, Sequences, FiniteSets, TLC

(* ------------------------------ bounds --------------------------------- *)

\* number of signals of the generic test bench
NSig == 3
\* number of free user processes of the generic test bench
NUser == 2
\* largest tick a run of the generic test bench is asked to reach
MaxTick == 3
\* segments one free user process may execute
MaxSegs == 2
\* deepest nesting of _update_internals / _update_next_value followed
MaxDepth == 6
\* largest number of counters of the fan-out test bench
MaxCounters == 2
\* longest delay of an assignment of the double-assignment bench, in ticks
MaxDelay == 3
\* longest half period of the clock of the nested bench but the test's, in
\* ticks
MaxHalf == 2
\* the modules of a tree and the methods of a module
MaxModules == 3
MaxNames == 2
\* how many pairs of assignments a clock process makes
MaxPairs == 2
\* how many graph operations build a test bench
MaxOps == 3
\* how often Simulator.run may initialize the test bench
MaxInit == 2
\* the steps of a run followed when a whole run is computed
MaxSteps == 60
\* Simulator.timescale, in time quanta: a time of x quanta is x / Scale ticks
Scale == 2

(* --------------------------- program constants ------------------------- *)

\* ticks between two clock toggles of the test benches (10e-9 / 1e-9)
HalfPeriod == 10
\* the fan-out test bench's target time in ticks (100e-9 / 1e-9, exactly)
RunTicks == 100
\* the delay test bench: its pairs of assignments and its target time in ticks
DelayPairs == 5
DelayRunTicks == 200

\* Python's None, for values, delays and handles
None == -1
\* simpy.events.URGENT and NORMAL: the priority classes of the event queue
URGENT == 0
NORMAL == 1
VARIABLES
    now,        \* Simulator._env.now: the current tick
    queue,      \* Simulator._env._queue, in pop order
    sig,        \* the Signal and Port objects, by identity
    user,       \* the processes of the modules (tagged routines)
    upd,        \* the live Signal._update processes, by process id
    phase,      \* "idle": outside Simulator.run; "running": inside env.run
    err,        \* the exception Simulator.run raised last, "" when none
    kwargs,     \* Module._kwargs: the construction-time port bindings
    commits,    \* history: the commits applied by the last step, in order
    hist,       \* history: every commit so far (kept when track is set)
    track,      \* whether hist is kept
    direct,     \* history: the signals assign was ever called on
    last,       \* history: the queue entry popped by the last step
    woke,       \* history: the tick at which a timeout last resumed a user process
    fires,      \* history: the calls of succeed made by the last step
    gop,        \* history: the last bind, connect or disconnect and the graph before
    modules,    \* the module tree: each module's classes and instances
    ninit       \* history: how often the initialization sequence has run

vars == <<now, queue, sig, user, upd, phase, err, kwargs, commits, hist,
          track, direct, last, woke, fires, gop, modules, ninit>>

(* ------------------------------ helpers -------------------------------- *)

Max(a, b) == IF a >= b THEN a ELSE b

Range(f) == {f[i] : i \in DOMAIN f}

\* int(time / timescale): Python's int() truncates the quotient
ToTicks(time) == time \div Scale

\* a variant of wait without the lower bound of one tick
WaitTicksUnbounded(time) == ToTicks(time)

\* Simulator.wait: the delay of the timeout, in ticks
WaitTicks(time) == Max(1, ToTicks(time))

\* list.remove(x): the first occurrence of x is dropped
RECURSIVE RemoveFirst(_, _)
RemoveFirst(seq, x) ==
    IF seq = <<>> THEN <<>>
    ELSE IF Head(seq) = x THEN Tail(seq)
    ELSE <<Head(seq)>> \o RemoveFirst(Tail(seq), x)

\* an event slot of a signal: no event, or a pending event and its waiters
\* (state "pending"), which succeed turns into a fired one with a value
NoSlot == [state |-> "none", cbs |-> <<>>, val |-> None]
PendingSlot == [state |-> "pending", cbs |-> <<>>, val |-> None]

\* Signal.__init__ / Port.__init__
NewSignal(direction, initial_value) ==
    [value |-> None, last_value |-> None, next_value |-> None,
     initial_value |-> initial_value, last_value_change |-> 0,
     sinks |-> <<>>, sources |-> <<>>,
     rising_edge |-> NoSlot, falling_edge |-> NoSlot, event |-> NoSlot,
     action |-> None, direction |-> direction]

\* a queue entry: kind is "init" (a process's Initialize), "interrupt",
\* "timeout", "event" (a fired UrgentEvent), "procend" (a finished process),
\* "condition" (a triggered AnyOf) or "until" (the stop event of env.run);
\* proc is the process of an init, interrupt or procend, the signal of an
\* event and the process waiting on a condition, tag the slot of an event,
\* cause the cause of an interrupt and the argument of the run of an until
Entry(time, prio, kind, proc, cause, cbs, tag) ==
    [time |-> time, prio |-> prio, kind |-> kind, proc |-> proc,
     cause |-> cause, cbs |-> cbs, tag |-> tag]

NoEntry == Entry(0, URGENT, "none", None, None, <<>>, "")

\* Environment.schedule: heappush with key (time, priority, eid); eid grows
\* with every push, so a new entry goes behind every entry of the same
\* time and priority
Schedule(q, e) ==
    LET before(x) == x.time < e.time \/ (x.time = e.time /\ x.prio <= e.prio)
        after(x) == ~before(x)
    IN SelectSeq(q, before) \o <<e>> \o SelectSeq(q, after)

(* ------------------------- the signal engine --------------------------- *)
(* The operators below take and return a record st of the variables a      *)
(* simulation step changes: now, queue, sig, user, upd, commits, hist,     *)
(* track, direct, fires, and exc, the exception being raised ("" when     *)
(* none).                                                                  *)

Raise(st, e) == IF st.exc = "" THEN [st EXCEPT !.exc = e] ELSE st

\* how many fired events of slot tag of signal s the queue holds
Fired(q, s, tag) ==
    Len(SelectSeq(q, LAMBDA x: x.kind = "event" /\ x.proc = s /\ x.tag = tag))

\* a variant of _update_state that forgets to move the value to last_value
UpdateStateKeepLast(st, s) ==
    LET g == st.sig[s]
    IN [st EXCEPT !.sig[s] =
          [g EXCEPT !.last_value_change =
                        IF g.value # g.next_value THEN st.now * Scale ELSE @,
                    !.value = g.next_value,
                    !.next_value = None]]

\* a variant of _update_state that leaves the next value in place
UpdateStateKeepNext(st, s) ==
    LET g == st.sig[s]
    IN [st EXCEPT !.sig[s] =
          [g EXCEPT !.last_value_change =
                        IF g.value # g.next_value THEN st.now * Scale ELSE @,
                    !.last_value = g.value,
                    !.value = g.next_value]]

\* Signal._update_state
UpdateState(st, s) ==
    LET g == st.sig[s]
    IN [st EXCEPT !.sig[s] =
          [g EXCEPT !.last_value_change =
                        IF g.value # g.next_value THEN st.now * Scale ELSE @,
                    !.last_value = g.value,
                    !.value = g.next_value,
                    !.next_value = None]]

\* a variant of succeed that schedules like simpy.Event.succeed: NORMAL
SucceedNormal(st, s, tag, value) ==
    LET slot == st.sig[s][tag]
    IN IF slot.state # "pending"
       THEN Raise(st, "RuntimeError")
       ELSE [st EXCEPT !.sig[s][tag].state = "fired",
                       !.sig[s][tag].val = value,
                       !.queue = Schedule(@,
                           Entry(st.now, NORMAL, "event", s, None, slot.cbs, tag))]

\* a variant of succeed without the test for an event that was triggered
SucceedUnchecked(st, s, tag, value) ==
    LET slot == st.sig[s][tag]
    IN [st EXCEPT !.sig[s][tag].state = "fired",
                  !.sig[s][tag].val = value,
                  !.queue = Schedule(@,
                      Entry(st.now, URGENT, "event", s, None, slot.cbs, tag))]

\* UrgentEvent.succeed(value), on the event of slot tag of signal s
Succeed(st, s, tag, value) ==
    LET slot == st.sig[s][tag]
    IN IF slot.state # "pending"
       THEN Raise(st, "RuntimeError")
       ELSE [st EXCEPT !.sig[s][tag].state = "fired",
                       !.sig[s][tag].val = value,
                       !.queue = Schedule(@,
                           Entry(st.now, URGENT, "event", s, None, slot.cbs, tag))]

\* history: what one call of succeed did, from the state before it (pre) and
\* the state after it (post)
FireRecord(pre, post, s, tag, value) ==
    [s |-> s, tag |-> tag, tick |-> pre.now, value |-> value,
     before |-> pre.sig[s][tag], after |-> post.sig[s][tag],
     failed |-> post.exc # "" /\ pre.exc = "",
     queueBefore |-> pre.queue, queueAfter |-> post.queue]

\* succeed is called on the event of slot tag of signal s
Fire(st, s, tag, value) ==
    LET a == Succeed(st, s, tag, value)
    IN [a EXCEPT !.fires = Append(@, FireRecord(st, a, s, tag, value))]

\* the slot's event is fired and the slot emptied (nothing more when
\* succeed raises)
FireSlot(st, s, tag) ==
    LET a == Fire(st, s, tag, None)
    IN IF a.exc # "" THEN a ELSE [a EXCEPT !.sig[s][tag] = NoSlot]

\* a variant of _update_events that fires the edge events on the level of
\* the new value, whatever the value before
UpdateEventsLevel(st, s) ==
    LET g == st.sig[s]
        both == g.last_value # None /\ g.value # None
        rise == both /\ g.rising_edge.state # "none" /\ g.value # 0
        fall == both /\ g.falling_edge.state # "none" /\ g.value = 0
        chg  == g.last_value # g.value /\ g.event.state # "none"
        a == IF rise THEN FireSlot(st, s, "rising_edge") ELSE st
        b == IF a.exc = "" /\ fall THEN FireSlot(a, s, "falling_edge") ELSE a
    IN IF b.exc = "" /\ chg THEN FireSlot(b, s, "event") ELSE b

\* a variant of _update_events that fires the change event on every commit
UpdateEventsAlways(st, s) ==
    LET g == st.sig[s]
        both == g.last_value # None /\ g.value # None
        rise == both /\ g.rising_edge.state # "none"
                     /\ g.last_value = 0 /\ g.value # 0
        fall == both /\ g.falling_edge.state # "none"
                     /\ g.last_value # 0 /\ g.value = 0
        chg  == g.event.state # "none"
        a == IF rise THEN FireSlot(st, s, "rising_edge") ELSE st
        b == IF a.exc = "" /\ fall THEN FireSlot(a, s, "falling_edge") ELSE a
    IN IF b.exc = "" /\ chg THEN FireSlot(b, s, "event") ELSE b

\* Signal._update_events
UpdateEvents(st, s) ==
    LET g == st.sig[s]
        both == g.last_value # None /\ g.value # None
        rise == both /\ g.rising_edge.state # "none"
                     /\ g.last_value = 0 /\ g.value # 0
        fall == both /\ g.falling_edge.state # "none"
                     /\ g.last_value # 0 /\ g.value = 0
        chg  == g.last_value # g.value /\ g.event.state # "none"
        a == IF rise THEN FireSlot(st, s, "rising_edge") ELSE st
        b == IF a.exc = "" /\ fall THEN FireSlot(a, s, "falling_edge") ELSE a
    IN IF b.exc = "" /\ chg THEN FireSlot(b, s, "event") ELSE b

\* history: what one commit of signal s did, from the state before it (pre)
\* and the state after _update_state and _update_events (post)
CommitRecord(pre, post, s) ==
    [s |-> s, tick |-> pre.now,
     before |-> pre.sig[s].value, pending |-> pre.sig[s].next_value,
     last_value |-> post.sig[s].last_value, value |-> post.sig[s].value,
     next_value |-> post.sig[s].next_value,
     hadRise |-> pre.sig[s].rising_edge.state # "none",
     hadFall |-> pre.sig[s].falling_edge.state # "none",
     hadEvent |-> pre.sig[s].event.state # "none",
     rose |-> Fired(post.queue, s, "rising_edge") > Fired(pre.queue, s, "rising_edge"),
     fell |-> Fired(post.queue, s, "falling_edge") > Fired(pre.queue, s, "falling_edge"),
     changed |-> Fired(post.queue, s, "event") > Fired(pre.queue, s, "event"),
     keptRise |-> post.sig[s].rising_edge.state # "none",
     keptFall |-> post.sig[s].falling_edge.state # "none",
     keptEvent |-> post.sig[s].event.state # "none"]

LogCommit(pre, post, s) ==
    LET c == CommitRecord(pre, post, s)
    IN [post EXCEPT !.commits = Append(@, c),
                    !.hist = IF post.track THEN Append(@, c) ELSE @]

\* Signal._update_internals: the commit of s and, in list order, of its sinks
RECURSIVE UpdateInternals(_, _, _, _)
RECURSIVE UpdateSinks(_, _, _, _, _)
UpdateInternals(st, s, source, depth) ==
    IF st.exc # "" THEN st
    ELSE IF depth > MaxDepth THEN Raise(st, "RecursionError")
    ELSE LET a == UpdateEvents(UpdateState(st, s), s)
         IN IF a.exc # "" THEN a
            ELSE UpdateSinks(LogCommit(st, a, s), s, 1, source, depth)

UpdateSinks(st, s, i, source, depth) ==
    IF st.exc # "" \/ i > Len(st.sig[s].sinks) THEN st
    ELSE LET connection == st.sig[s].sinks[i]
             a == IF source = None \/ connection # source
                  THEN UpdateInternals(st, connection, source, depth + 1)
                  ELSE st
         IN UpdateSinks(a, s, i + 1, source, depth)

\* a variant of _update_last_value that does not reach the sinks
UpdateLastValueShallow(st, s, value, source, depth) ==
    [st EXCEPT !.sig[s].last_value = value, !.sig[s].value = value]

\* Signal._update_last_value
RECURSIVE UpdateLastValue(_, _, _, _, _)
RECURSIVE LastValueSinks(_, _, _, _, _, _)
UpdateLastValue(st, s, value, source, depth) ==
    IF st.exc # "" THEN st
    ELSE IF depth > MaxDepth THEN Raise(st, "RecursionError")
    ELSE LastValueSinks(
            [st EXCEPT !.sig[s].last_value = value, !.sig[s].value = value],
            s, 1, value, source, depth)

LastValueSinks(st, s, i, value, source, depth) ==
    IF st.exc # "" \/ i > Len(st.sig[s].sinks) THEN st
    ELSE LET sink == st.sig[s].sinks[i]
             a == IF sink # source
                  THEN UpdateLastValue(st, sink, value, s, depth + 1)
                  ELSE st
         IN LastValueSinks(a, s, i + 1, value, source, depth)

\* a variant of _update_next_value that does not reach the sinks
UpdateNextValueShallow(st, s, value, source, depth) ==
    [st EXCEPT !.sig[s].next_value = value]

\* Signal._update_next_value
RECURSIVE UpdateNextValue(_, _, _, _, _)
RECURSIVE NextValueSinks(_, _, _, _, _, _)
UpdateNextValue(st, s, value, source, depth) ==
    IF st.exc # "" THEN st
    ELSE IF depth > MaxDepth THEN Raise(st, "RecursionError")
    ELSE NextValueSinks([st EXCEPT !.sig[s].next_value = value],
                        s, 1, value, source, depth)

NextValueSinks(st, s, i, value, source, depth) ==
    IF st.exc # "" \/ i > Len(st.sig[s].sinks) THEN st
    ELSE LET sink == st.sig[s].sinks[i]
             a == IF sink # source
                  THEN UpdateNextValue(st, sink, value, s, depth + 1)
                  ELSE st
         IN NextValueSinks(a, s, i + 1, value, source, depth)

\* a variant of propagate_initial_value that seeds nothing
PropagateNothing(st, s) == st

\* Signal.propagate_initial_value
PropagateInitialValue(st, s) ==
    IF st.sig[s].initial_value # None
    THEN UpdateLastValue(st, s, st.sig[s].initial_value, s, 0)
    ELSE st

\* a variant of connect that leaves the sources of the other signal as they are
ConnectForward(st, s, other) ==
    IF other \in Range(st.sig[s].sinks)
    THEN Raise(st, "ValueError")
    ELSE [st EXCEPT !.sig[s].sinks = Append(@, other)]

\* Signal.connect; the state is left as it is when the edge exists
Connect(st, s, other) ==
    IF other \in Range(st.sig[s].sinks)
    THEN Raise(st, "ValueError")
    ELSE [st EXCEPT !.sig[s].sinks = Append(@, other),
                    !.sig[other].sources = Append(@, s)]

\* a variant of disconnect that leaves the sources of the sink as they are
DisconnectForward(st, s, signal) ==
    IF signal \notin Range(st.sig[s].sinks)
    THEN Raise(st, "ValueError")
    ELSE [st EXCEPT !.sig[s].sinks = RemoveFirst(@, signal)]

\* Signal.disconnect
Disconnect(st, s, signal) ==
    IF signal \notin Range(st.sig[s].sinks)
    THEN Raise(st, "ValueError")
    ELSE LET a == [st EXCEPT !.sig[s].sinks = RemoveFirst(@, signal)]
         IN [a EXCEPT !.sig[signal].sources = RemoveFirst(@, s)]

\* a variant of bind that orients every binding like that of an input port
BindAsInput(st, port, other) ==
    LET a == [st EXCEPT !.sig[other].sinks = Append(@, port)]
    IN [a EXCEPT !.sig[port].sources = Append(@, other)]

\* a variant of bind that binds an inout port like an input port
BindOneWay(st, port, other) ==
    IF st.sig[port].direction \in {"input", "inout"}
    THEN BindAsInput(st, port, other)
    ELSE IF st.sig[port].direction = "output"
    THEN LET a == [st EXCEPT !.sig[port].sinks = Append(@, other)]
         IN [a EXCEPT !.sig[other].sources = Append(@, port)]
    ELSE st

\* Port.bind
Bind(st, port, other) ==
    LET d == st.sig[port].direction
    IN IF d = "input"
       THEN LET a == [st EXCEPT !.sig[other].sinks = Append(@, port)]
            IN [a EXCEPT !.sig[port].sources = Append(@, other)]
       ELSE IF d = "output"
       THEN LET a == [st EXCEPT !.sig[port].sinks = Append(@, other)]
            IN [a EXCEPT !.sig[other].sources = Append(@, port)]
       ELSE IF d = "inout"
       THEN LET a == [st EXCEPT !.sig[other].sinks = Append(@, port)]
                b == [a EXCEPT !.sig[other].sources = Append(@, port)]
                c == [b EXCEPT !.sig[port].sinks = Append(@, other)]
            IN [c EXCEPT !.sig[port].sources = Append(@, other)]
       ELSE st

(* ----------------------------- processes ------------------------------- *)
(* Process ids: the user processes are 1 .. Len(user); a Signal._update    *)
(* process gets the first of the ids -2, -3, ... nothing refers to any     *)
(* more.                                                                   *)

IsUser(st, p) == p \in DOMAIN st.user

UsedIds(st) ==
    DOMAIN st.upd
    \cup {e.proc : e \in {x \in Range(st.queue) : x.kind \in {"init", "interrupt"}}}
    \cup UNION {Range(e.cbs) : e \in {x \in Range(st.queue) : x.kind = "timeout"}}

FreshId(st) ==
    LET id(k) == 0 - (k + 1)
        k == CHOOSE x \in 1 .. (Cardinality(UsedIds(st)) + 1) :
                /\ id(x) \notin UsedIds(st)
                /\ \A j \in 1 .. (x - 1) : id(j) \in UsedIds(st)
    IN id(k)

\* the table upd with process id mapped to record r
PutUpd(table, id, r) ==
    [i \in DOMAIN table \cup {id} |-> IF i = id THEN r ELSE table[i]]

\* the table upd without process id
DropUpd(table, id) == [i \in DOMAIN table \ {id} |-> table[i]]

\* a process ends: Process._resume schedules the process event (NORMAL);
\* tag is the exception the process failed with, "" when it returned
ProcEnd(st, tag) ==
    [st EXCEPT !.queue = Schedule(@, Entry(st.now, NORMAL, "procend", None, None, <<>>, tag)),
               !.exc = ""]

\* Simulator.wait, yielded by process p: a Timeout is created (scheduled
\* NORMAL) and p's resumption is its callback
YieldWait(st, p, time) ==
    [st EXCEPT !.queue = Schedule(@,
        Entry(st.now + WaitTicks(time), NORMAL, "timeout", None, None, <<p>>, ""))]

\* Process.interrupt(cause): an Interruption is scheduled URGENT; a process
\* that has ended cannot be interrupted
Interrupt(st, id, cause) ==
    IF id \notin DOMAIN st.upd
    THEN Raise(st, "RuntimeError")
    ELSE [st EXCEPT !.queue = Schedule(@,
            Entry(st.now, URGENT, "interrupt", id, cause, <<>>, ""))]

\* core.schedule(self._update(delay, self)): Simulator.process creates the
\* process, whose Initialize event is scheduled URGENT; value is history,
\* the value of the last assign the _update is to commit
SpawnUpdate(st, s, value, delay) ==
    LET id == FreshId(st)
    IN [st EXCEPT !.upd = PutUpd(@, id, [sig |-> s, source |-> s, delay |-> delay,
                                         state |-> "init", value |-> value]),
                  !.queue = Schedule(@, Entry(st.now, URGENT, "init", id, None, <<>>, "")),
                  !.sig[s].action = id]

\* a variant of assign that schedules a new _update whatever _action holds
AssignAlways(st, s, value, delay) ==
    LET a == UpdateNextValue([st EXCEPT !.direct = @ \cup {s}], s, value, s, 0)
    IN IF a.exc # "" THEN a ELSE SpawnUpdate(a, s, value, delay)

\* Signal.assign
Assign(st, s, value, delay) ==
    LET a == UpdateNextValue([st EXCEPT !.direct = @ \cup {s}], s, value, s, 0)
    IN IF a.exc # "" THEN a
       ELSE IF a.sig[s].action # None
       THEN LET id == a.sig[s].action
                b == IF id \in DOMAIN a.upd THEN [a EXCEPT !.upd[id].value = value] ELSE a
            IN Interrupt(b, id, delay)
       ELSE SpawnUpdate(a, s, value, delay)

\* Signal._update, after the wait (or without one): the commit, then
\* self._action = None, and the process returns
UpdateFinish(st, id) ==
    LET s == st.upd[id].sig
        a == UpdateInternals(st, s, st.upd[id].source, 0)
    IN IF a.exc # ""
       THEN ProcEnd([a EXCEPT !.upd = DropUpd(@, id)], a.exc)
       ELSE ProcEnd([a EXCEPT !.sig[s].action = None, !.upd = DropUpd(@, id)], "")

\* Signal._update, from the top of its loop with the given delay
UpdateRun(st, id, delay) ==
    IF delay # None
    THEN YieldWait([st EXCEPT !.upd[id].state = "wait"], id, delay)
    ELSE UpdateFinish(st, id)

\* an instruction of a user process: "assign" value v to signal s with delay
\* d, "copy" the value of signal v to s with delay d, "inc" signal s, "goto"
\* instruction v, "assign_field" value v to field d of signal s, "wait" the
\* time d, fire the event of a slot of signal s
\* with value v, wait on "anyof" the events of slot v of the signals s, or
\* wait on a slot of signal s
Instr(op, s, v, d) == [op |-> op, s |-> s, v |-> v, d |-> d]

\* Signal.rising_edge / falling_edge / event: the accessor creates the
\* slot's event when there is none
Accessor(st, s, tag) ==
    IF st.sig[s][tag].state = "none" THEN [st EXCEPT !.sig[s][tag] = PendingSlot] ELSE st

\* where the queue holds fired events of slot tag of signal s
EventEntries(q, s, tag) ==
    {k \in DOMAIN q : q[k].kind = "event" /\ q[k].proc = s /\ q[k].tag = tag}

\* the event of the slot was fired and its callbacks have run
Processed(st, s, tag) ==
    st.sig[s][tag].state = "fired" /\ EventEntries(st.queue, s, tag) = {}

\* the event of slot tag of signal s, yielded by process p: p joins the
\* callbacks of the event, which the queue holds when the event was fired
YieldSlot(st, p, s, tag) ==
    LET a == Accessor(st, s, tag)
        b == [a EXCEPT !.sig[s][tag].cbs = Append(@, p)]
        ks == EventEntries(st.queue, s, tag)
        k == CHOOSE x \in ks : \A y \in ks : y <= x
    IN IF a.sig[s][tag].state = "fired" /\ ks # {}
       THEN [b EXCEPT !.queue[k].cbs = Append(@, p)]
       ELSE b

\* the callback _check of the AnyOf process p waits on, among the callbacks
\* of an event, and the process of such a callback
CheckOf(p) == 1000 + p
IsCheck(c) == c > 1000
Waiter(c) == c - 1000

\* where the queue holds the triggered AnyOf of process p
ConditionEntries(q, p) ==
    {k \in DOMAIN q : q[k].kind = "condition" /\ q[k].proc = p}

\* Condition._check of the AnyOf of process p, called for a member that
\* fired: unless the condition was triggered before, it succeeds, and
\* simpy's Event.succeed schedules it NORMAL; p is its callback
Check(st, p) ==
    IF ConditionEntries(st.queue, p) # {} THEN st
    ELSE [st EXCEPT !.queue = Schedule(@,
            Entry(st.now, NORMAL, "condition", p, None, <<p>>, ""))]

\* Condition.__init__ of the AnyOf of process p over the events of slot tag
\* of the member signals: _check is called for a member that was processed
\* and joins the callbacks of every other
RECURSIVE Attach(_, _, _, _)
Attach(st, p, members, tag) ==
    IF members = <<>> THEN st
    ELSE LET s == Head(members)
         IN Attach(IF Processed(st, s, tag) THEN Check(st, p)
                   ELSE YieldSlot(st, CheckOf(p), s, tag),
                   p, Tail(members), tag)

\* Simulator.anyof(events), yielded by process p
AnyOf(st, p, members, tag) == Attach(st, p, members, tag)

\* Condition._build_value, the first callback of a processed AnyOf: _check
\* leaves the callbacks of every member that still has callbacks
BuildValue(st, p) ==
    LET strip(cbs) == SelectSeq(cbs, LAMBDA c : c # CheckOf(p))
    IN [st EXCEPT
          !.sig = [s \in DOMAIN st.sig |->
                     [st.sig[s] EXCEPT !.rising_edge.cbs = strip(@),
                                       !.falling_edge.cbs = strip(@),
                                       !.event.cbs = strip(@)]],
          !.queue = [k \in DOMAIN st.queue |->
                       IF st.queue[k].kind = "event"
                       THEN [st.queue[k] EXCEPT !.cbs = strip(@)]
                       ELSE st.queue[k]]]

\* Values of a Struct type with the fields 1 and 2, each 0 or 1: the
\* namespace with the fields x and y is the number 10 + 3 * x + y, and the
\* dict that maps the fields to x and y is 20 + 3 * x + y, where 2 stands
\* for a field the dict does not name.
Fields == {1, 2}
Namespace(x, y) == 10 + 3 * x + y
Mapping(x, y) == 20 + 3 * x + y
IsNamespace(value) == value \div 10 = 1

\* what the value holds for the field, as attribute or as key: 2 when nothing
FieldOf(value, field) == IF field = 1 THEN (value % 10) \div 3 ELSE (value % 10) % 3

\* getattr(value, field): 2 when the value has no such attribute
GetAttr(value, field) == IF IsNamespace(value) THEN FieldOf(value, field) ELSE 2

\* setattr(value, field, other) on a namespace
SetAttr(value, field, other) ==
    IF field = 1 THEN Namespace(other, GetAttr(value, 2))
    ELSE Namespace(GetAttr(value, 1), other)

\* Struct.default: every field at the default of its type, 0
StructDefault == Namespace(0, 0)

\* SubSignal.assign: the field is set on the parent's next_value (a copy of
\* its value when none is pending), which is assigned to the parent;
\* setattr fails on None and on a dict
SubSignalAssign(st, s, field, other, delay) ==
    LET g == st.sig[s]
        next_value == IF g.next_value = None THEN g.value ELSE g.next_value
    IN IF next_value = None \/ ~IsNamespace(next_value)
       THEN Raise(st, "AttributeError")
       ELSE Assign(st, s, SetAttr(next_value, field, other), delay)

\* the slot whose event a fire instruction triggers
FireTag(op) ==
    IF op = "fire_rising_edge" THEN "rising_edge"
    ELSE IF op = "fire_falling_edge" THEN "falling_edge"
    ELSE "event"

\* a user process runs from its pc to its next yield, or to its end
RECURSIVE Exec(_, _)
Exec(st, p) ==
    LET u == st.user[p]
        free == u.kind = "free"
        i == u.prog[u.pc]
        \* the process as it waits: a free process keeps no program
        \* at: the tick at which a process with a program yielded
        parked == [u EXCEPT !.state = "wait",
                            !.at = IF free THEN @ ELSE st.now,
                            !.pc = IF free THEN 1 ELSE u.pc + 1,
                            !.prog = IF free THEN <<>> ELSE @]
        step(a) == Exec([a EXCEPT !.user[p].pc = u.pc + 1], p)
    IN IF st.exc # ""
       THEN ProcEnd([st EXCEPT !.user[p].state = "done",
                               !.user[p].prog = IF free THEN <<>> ELSE @], st.exc)
       ELSE IF u.pc > Len(u.prog)
       THEN ProcEnd([st EXCEPT !.user[p].state = "done",
                               !.user[p].prog = IF free THEN <<>> ELSE @], "")
       ELSE IF i.op = "assign" THEN step(Assign(st, i.s, i.v, i.d))
       ELSE IF i.op = "inc"
       THEN IF st.sig[i.s].value = None
            THEN Exec(Raise(st, "TypeError"), p)
            ELSE step(Assign(st, i.s, st.sig[i.s].value + 1, None))
       ELSE IF i.op = "copy" THEN step(Assign(st, i.s, st.sig[i.v].value, i.d))
       ELSE IF i.op = "assign_field" THEN step(SubSignalAssign(st, i.s, i.d, i.v, None))
       ELSE IF i.op = "goto" THEN Exec([st EXCEPT !.user[p].pc = i.v], p)
       ELSE IF i.op \in {"fire_rising_edge", "fire_falling_edge", "fire_event"}
       THEN step(Fire(Accessor(st, i.s, FireTag(i.op)), i.s, FireTag(i.op), i.v))
       ELSE IF i.op = "wait"
       THEN YieldWait([st EXCEPT !.user[p] = parked], p, i.d)
       ELSE IF i.op = "anyof"
       THEN AnyOf([st EXCEPT !.user[p] = parked], p, i.s, i.v)
       ELSE IF Processed(st, i.s, i.op) THEN step(st)
       ELSE YieldSlot([st EXCEPT !.user[p] = parked], p, i.s, i.op)

\* a user process is resumed; a free process executes the segment chosen
RunUser(st, p, choice) ==
    IF st.user[p].kind = "free"
    THEN Exec([st EXCEPT !.user[p].prog = choice, !.user[p].pc = 1,
                         !.user[p].segs = @ + 1], p)
    ELSE Exec(st, p)

(* ----------------------------- the scheduler --------------------------- *)

\* the callbacks of a popped timeout or event, in order: each resumes its
\* process; the i-th free process resumed executes segment choices[i]
RECURSIVE ResumeAll(_, _, _, _)
ResumeAll(st, cbs, choices, k) ==
    IF cbs = <<>> THEN st
    ELSE LET p == Head(cbs)
         IN IF IsUser(st, p)
            THEN IF st.user[p].kind = "free"
                 THEN ResumeAll(RunUser(st, p, choices[k]), Tail(cbs), choices, k + 1)
                 ELSE ResumeAll(RunUser(st, p, <<>>), Tail(cbs), choices, k)
            ELSE IF p \in DOMAIN st.upd
            THEN ResumeAll(UpdateFinish(st, p), Tail(cbs), choices, k)
            ELSE IF IsCheck(p)
            THEN ResumeAll(Check(st, Waiter(p)), Tail(cbs), choices, k)
            ELSE ResumeAll(st, Tail(cbs), choices, k)

\* a variant in which the interrupted _update keeps its delay, not the cause
DoInterruptKeepDelay(st, id, cause) ==
    IF id \notin DOMAIN st.upd THEN st
    ELSE IF st.upd[id].state = "init"
    THEN ProcEnd([st EXCEPT !.upd = DropUpd(@, id)], "Interrupt")
    ELSE LET q == [k \in DOMAIN st.queue |->
                     IF st.queue[k].kind = "timeout"
                     THEN [st.queue[k] EXCEPT !.cbs = RemoveFirst(@, id)]
                     ELSE st.queue[k]]
         IN UpdateRun([st EXCEPT !.queue = q], id, st.upd[id].delay)

\* a variant in which the interrupted _update stays a callback of the
\* timeout it waited on
DoInterruptKeepTimeout(st, id, cause) ==
    IF id \notin DOMAIN st.upd THEN st
    ELSE IF st.upd[id].state = "init"
    THEN ProcEnd([st EXCEPT !.upd = DropUpd(@, id)], "Interrupt")
    ELSE UpdateRun(st, id, cause)

\* Interruption._interrupt: nothing for a process that has ended; else the
\* process leaves its target's callbacks and the Interrupt is thrown into
\* it, where Signal._update takes the cause as its new delay
DoInterrupt(st, id, cause) ==
    IF id \notin DOMAIN st.upd THEN st
    ELSE IF st.upd[id].state = "init"
    THEN ProcEnd([st EXCEPT !.upd = DropUpd(@, id)], "Interrupt")
    ELSE LET q == [k \in DOMAIN st.queue |->
                     IF st.queue[k].kind = "timeout"
                     THEN [st.queue[k] EXCEPT !.cbs = RemoveFirst(@, id)]
                     ELSE st.queue[k]]
         IN UpdateRun([st EXCEPT !.queue = q], id, cause)

\* Process._resume on the process's Initialize event
StartProcess(st, p, choices) ==
    IF IsUser(st, p)
    THEN RunUser(st, p, IF st.user[p].kind = "free" THEN choices[1] ELSE <<>>)
    ELSE IF p \in DOMAIN st.upd
    THEN UpdateRun(st, p, st.upd[p].delay)
    ELSE st

\* Environment.step: the first entry is popped, the clock moves to its time
\* and its callbacks run
EnvStep(st, choices) ==
    LET e == Head(st.queue)
        a == [st EXCEPT !.queue = Tail(@), !.now = e.time, !.commits = <<>>,
                        !.fires = <<>>]
    IN IF e.kind = "init" THEN StartProcess(a, e.proc, choices)
       ELSE IF e.kind = "interrupt" THEN DoInterrupt(a, e.proc, e.cause)
       ELSE IF e.kind \in {"timeout", "event"} THEN ResumeAll(a, e.cbs, choices, 1)
       ELSE IF e.kind = "condition"
       THEN ResumeAll(BuildValue(a, e.proc), e.cbs, choices, 1)
       ELSE a

\* the free user processes the first entry of the queue resumes, in order
Resumed(e) ==
    IF e.kind = "init" THEN (IF e.proc \in DOMAIN user THEN <<e.proc>> ELSE <<>>)
    ELSE IF e.kind \in {"timeout", "event", "condition"}
    THEN SelectSeq(e.cbs, LAMBDA p : p \in DOMAIN user)
    ELSE <<>>

FreeResumed(e) == SelectSeq(Resumed(e), LAMBDA p : user[p].kind = "free")

\* the entry the next step pops
Front == IF queue = <<>> THEN NoEntry ELSE Head(queue)

\* the variables as the record the operators work on
Cur ==
    [now |-> now, queue |-> queue, sig |-> sig, user |-> user, upd |-> upd,
     commits |-> commits, hist |-> hist, track |-> track, direct |-> direct,
     fires |-> fires, exc |-> ""]

Install(r) ==
    /\ now' = r.now
    /\ queue' = r.queue
    /\ sig' = r.sig
    /\ user' = r.user
    /\ upd' = r.upd
    /\ commits' = r.commits
    /\ hist' = r.hist
    /\ direct' = r.direct
    /\ fires' = r.fires

\* one pass of the loop of Environment.run, inside Simulator.run: a popped
\* "until" stops the run; a popped process event of a failed process makes
\* step, and so run, raise its exception
Step(choices) ==
    /\ phase = "running"
    /\ queue # <<>>
    /\ LET e == Head(queue)
       IN /\ Install(EnvStep(Cur, choices))
          /\ last' = e
          /\ woke' = IF e.kind = "timeout" /\ Resumed(e) # <<>> THEN e.time ELSE woke
          /\ phase' = IF e.kind = "until" \/ (e.kind = "procend" /\ e.tag # "")
                      THEN "idle" ELSE "running"
          /\ err' = IF e.kind = "procend" /\ e.tag # "" THEN e.tag ELSE err
    /\ UNCHANGED <<kwargs, track, ninit, gop, modules>>

\* port bindings made one after the other
RECURSIVE BindAll(_, _)
BindAll(st, bindings) ==
    IF bindings = <<>> THEN st
    ELSE BindAll(Bind(st, Head(bindings).port, Head(bindings).other), Tail(bindings))

\* for this, that in zip(port, value): this.bind(that), which ends with the
\* shorter of the two lists
RECURSIVE BindZip(_, _, _)
BindZip(st, port, value) ==
    IF port = <<>> \/ value = <<>> THEN st
    ELSE BindZip(Bind(st, Head(port), Head(value)), Tail(port), Tail(value))

\* Module._initialize_port_bindings: the keyword bindings in order, up to
\* the first that raises. The attribute named by a binding is a port
\* (kind "port"), a list of ports ("list"), something else ("other") or
\* missing ("missing"); the port and the value of a list binding are lists,
\* the value a list of one when a single signal was given (islist false)
RECURSIVE InitializePortBindings(_, _)
InitializePortBindings(st, bindings) ==
    IF bindings = <<>> \/ st.exc # "" THEN st
    ELSE LET b == Head(bindings)
             a == IF b.kind = "missing" THEN Raise(st, "KeyError")
                  ELSE IF b.kind = "list"
                  THEN IF ~b.islist /\ Len(b.port) # 1
                       THEN Raise(st, "ValueError")
                       ELSE BindZip(st, b.port, b.other)
                  ELSE IF b.kind = "port" THEN Bind(st, b.port, b.other)
                  ELSE Raise(st, "ValueError")
         IN InitializePortBindings(a, Tail(bindings))

\* Module.initialize: the routines are called and the processes scheduled
\* in the given order; a routine called once more gives one more process
RECURSIVE ScheduleAll(_, _)
ScheduleAll(st, procs) ==
    IF procs = <<>> THEN st
    ELSE LET p == Head(procs)
             first == st.user[p].state = "unstarted"
             id == IF first THEN p ELSE Len(st.user) + 1
             proc == [st.user[p] EXCEPT !.state = "init", !.pc = 1, !.segs = 0, !.at = 0]
             a == [st EXCEPT !.user = IF first THEN [@ EXCEPT ![p] = proc]
                                      ELSE Append(@, proc),
                             !.queue = Schedule(@,
                                 Entry(st.now, URGENT, "init", id, None, <<>>, ""))]
         IN ScheduleAll(a, Tail(procs))

\* Module.propagate_initial_values: every signal, in the given order
RECURSIVE PropagateAll(_, _)
PropagateAll(st, signals) ==
    IF signals = <<>> THEN st
    ELSE PropagateAll(PropagateInitialValue(st, Head(signals)), Tail(signals))

\* the one-time initialization sequence of Simulator.run
Initialize(st, procs, signals) ==
    LET a == InitializePortBindings(st, kwargs)
    IN IF a.exc # "" THEN a
       ELSE PropagateAll(ScheduleAll(a, procs), signals)

\* Simulator.run(until), up to the loop of Environment.run: the
\* initialization when the clock is at 0, then the stop event is scheduled
\* URGENT at tick int(until / timescale), which must lie ahead
RunStart(until, procs, signals) ==
    /\ phase = "idle"
    /\ now = 0 => ninit < MaxInit
    /\ LET a == IF now = 0 THEN Initialize(Cur, procs, signals) ELSE Cur
           at == ToTicks(until)
           ok == a.exc = "" /\ at > now
       IN /\ Install([a EXCEPT !.commits = <<>>, !.fires = <<>>,
                               !.queue = IF ok
                                         THEN Schedule(@, Entry(at, URGENT, "until", None, until, <<>>, ""))
                                         ELSE @])
          /\ phase' = IF ok THEN "running" ELSE "idle"
          /\ err' = IF a.exc # "" THEN a.exc ELSE IF at > now THEN "" ELSE "ValueError"
          /\ ninit' = IF now = 0 THEN ninit + 1 ELSE ninit
    /\ last' = NoEntry
    /\ UNCHANGED <<kwargs, track, woke, gop, modules>>

(* ------------------------ the generic test bench ----------------------- *)
(* NSig signals connected by port bindings made at construction, and NUser *)
(* free processes: a free process executes, each time it is resumed, an    *)
(* optional assign followed by a yield (or its end), both chosen freely.   *)

Sigs == 1 .. NSig
Values == {0, 1}
\* the delays of assign: none, less than a tick, two ticks
Delays == {None, 1, 2 * Scale}
\* the times of wait: less than a tick, which waits one tick
Waits == {1}
SlotTags == {"rising_edge", "falling_edge", "event"}

\* the signals the free processes assign (the first and the last) and the
\* signal whose events they wait on (the last)
Driven == {1, NSig}
Watched == {NSig}

Assigns == {Instr("assign", s, v, d) : s \in Driven, v \in Values, d \in Delays}
Yields == {Instr("wait", None, None, d) : d \in Waits}
          \cup {Instr(tag, s, None, None) : s \in Watched, tag \in SlotTags}

\* the segments of a free process that end in a yield, and those that end it
YieldingSegments == {<<y>> : y \in Yields} \cup {<<a, y>> : a \in Assigns, y \in Yields}
FinalSegments == {<<>>} \cup {<<a>> : a \in Assigns}

SegmentsFor(p) ==
    IF user[p].segs + 1 >= MaxSegs THEN FinalSegments
    ELSE YieldingSegments \cup FinalSegments

\* the choices of the free processes in procs: one segment each
RECURSIVE ChoicesFor(_)
ChoicesFor(procs) ==
    IF procs = <<>> THEN {<<>>}
    ELSE {<<c>> \o rest : c \in SegmentsFor(Head(procs)), rest \in ChoicesFor(Tail(procs))}

FreeProcess ==
    [kind |-> "free", prog |-> <<>>, pc |-> 1, state |-> "unstarted", segs |-> 0,
     at |-> 0]

\* fan-out: signal 1 drives the input ports 2 .. NSig
FanOut(iv) ==
    LET S0 == [s \in Sigs |-> IF s = 1 THEN NewSignal("none", iv) ELSE NewSignal("input", None)]
        bindings == [k \in 1 .. (NSig - 1) |-> [port |-> k + 1, other |-> 1]]
    IN BindAll([sig |-> S0], bindings).sig

\* chain: the output port k is bound to k + 1, for k < NSig; the ends may
\* have initial values
Chain(iv, ivN) ==
    LET S0 == [s \in Sigs |-> IF s = NSig THEN NewSignal("none", ivN)
                              ELSE NewSignal("output", IF s = 1 THEN iv ELSE None)]
        bindings == [k \in 1 .. (NSig - 1) |-> [port |-> k, other |-> k + 1]]
    IN BindAll([sig |-> S0], bindings).sig

\* bus: the inout port k is bound to k + 1, for k < NSig; the ends may have
\* initial values
Bus(iv, ivN) ==
    LET S0 == [s \in Sigs |-> IF s = NSig THEN NewSignal("none", ivN)
                              ELSE NewSignal("inout", IF s = 1 THEN iv ELSE None)]
        bindings == [k \in 1 .. (NSig - 1) |-> [port |-> k, other |-> k + 1]]
    IN BindAll([sig |-> S0], bindings).sig

InitialValues == {None, 0, 1}

Graphs == {FanOut(iv) : iv \in InitialValues}
          \cup {Chain(iv, ivN) : iv \in InitialValues, ivN \in InitialValues}
          \cup {Bus(iv, ivN) : iv \in InitialValues, ivN \in InitialValues}

\* the graphs of the generic test bench
BenchGraphs == {FanOut(0), FanOut(None), Chain(None, None)}

\* a change event of the last signal obtained at construction
WithEvent(S) == [S EXCEPT ![NSig].event = PendingSlot]

\* no graph operation yet
NoOp == [op |-> "none", a |-> None, b |-> None, before |-> <<>>, failed |-> FALSE, n |-> 0]

EmptyUpd ==
    [i \in {} |-> [sig |-> 0, source |-> 0, delay |-> None, state |-> "init", value |-> None]]

InitSimulator ==
    /\ now = 0
    /\ queue = <<>>
    /\ upd = EmptyUpd
    /\ phase = "idle"
    /\ err = ""
    /\ commits = <<>>
    /\ hist = <<>>
    /\ direct = {}
    /\ last = NoEntry
    /\ woke = None
    /\ fires = <<>>
    /\ gop = NoOp
    /\ ninit = 0

\* a test bench of one module
InitCommon == InitSimulator /\ modules = <<>>

Init ==
    /\ InitCommon
    /\ sig \in BenchGraphs
    /\ user = [p \in 1 .. NUser |-> FreeProcess]
    /\ kwargs = <<>>
    /\ track = FALSE

\* the orders in which Module.initialize may start the processes and
\* Module.signals may list the signals
Ascending(n) == [i \in 1 .. n |-> i]
Descending(n) == [i \in 1 .. n |-> n + 1 - i]
Orders(n) == {Ascending(n), Descending(n)}

Next ==
    \/ RunStart(MaxTick * Scale, Ascending(NUser), Ascending(NSig))
    \/ \E choices \in ChoicesFor(FreeResumed(Front)) : Step(choices)

Spec == Init /\ [][Next]_vars

(* ------------------------------ properties ----------------------------- *)

\* the continuations the kernel schedules urgent: process starts (and with
\* them the zero-delay commits), interruptions, and edge and change events
UrgentKinds == {"init", "interrupt", "event"}
\* the normal continuations: timeouts and the events of processes that ended
NormalKinds == {"timeout", "procend"}

\* C1: whenever a normal continuation of tick t is about to be popped, no
\* urgent continuation of a tick <= t is pending: process starts, zero-delay
\* commits and edge and change wake-ups of tick t all run before any timeout
\* of tick t.
C1_UrgentBeforeNormal ==
    (phase = "running" /\ Front.kind \in NormalKinds) =>
        \A i \in DOMAIN queue :
            queue[i].kind \in UrgentKinds => queue[i].time > Front.time

\* C1, witness: an edge or change event has just woken its waiters at this
\* tick and a timeout of the same tick, with a waiter, is popped next
C1_Witness ==
    /\ phase = "running"
    /\ last.kind = "event" /\ last.cbs # <<>> /\ last.time = now
    /\ Front.kind = "timeout" /\ Front.cbs # <<>> /\ Front.time = now

\* C2: when a delayed commit is applied at tick t (the _update process is
\* resumed by its timeout), no process has been resumed from a timeout at
\* tick t before it: a process resumed from a timeout reads settled values.
C2_SettledBeforeResume ==
    (last.kind = "timeout" /\ commits # <<>>) => woke # now

\* C4: every live _update process is the one its signal's _action holds, so
\* no signal has two delayed-commit actions outstanding.
C4_OneAction ==
    /\ \A id \in DOMAIN upd : sig[upd[id].sig].action = id
    /\ \A s \in DOMAIN sig : Cardinality({id \in DOMAIN upd : upd[id].sig = s}) <= 1

\* C4, witness: assign was called on a signal whose _update process has not
\* started yet (a second assign in the same tick): the process is to be
\* interrupted, and no second one exists
C4_Witness ==
    \E i \in DOMAIN queue :
        /\ queue[i].kind = "interrupt"
        /\ queue[i].proc \in DOMAIN upd
        /\ upd[queue[i].proc].state = "init"

\* how often signal s was committed by the last step
TimesCommitted(s) == Cardinality({i \in DOMAIN commits : commits[i].s = s})

\* C5: every commit, of the triggering signal or of a sink, leaves last_value
\* equal to the value held before it, value equal to the next_value that was
\* pending and next_value cleared; a signal committed once by a step shows
\* exactly that after the step.
C5_TwoPhase ==
    \A i \in DOMAIN commits :
        LET c == commits[i]
        IN /\ c.last_value = c.before
           /\ c.value = c.pending
           /\ c.next_value = None
           /\ TimesCommitted(c.s) = 1 =>
                 /\ sig[c.s].last_value = c.before
                 /\ sig[c.s].value = c.pending
                 /\ sig[c.s].next_value = None

\* C5, witness: one pass committed a signal and a sink of it, the sink from
\* a held value to a different pending one
C5_Witness ==
    \E i, j \in DOMAIN commits :
        /\ i < j /\ commits[i].s # commits[j].s
        /\ commits[j].before # None /\ commits[j].pending # None
        /\ commits[j].before # commits[j].pending
        /\ sig[commits[j].s].last_value = commits[j].before

\* Python truthiness of a value: None and 0 are falsy
Truthy(v) == v # None /\ v # 0

\* C6, as stated: for every commit of a signal whose rising-edge (falling-
\* edge) slot holds an event, the first commit of a signal without initial
\* value included, the event is fired iff the transition is falsy to truthy
\* (truthy to falsy) under the truthiness of the value before and the new
\* value.
C6_EdgeIffTransition ==
    \A i \in DOMAIN commits :
        LET c == commits[i]
        IN /\ c.hadRise => (c.rose <=> (~Truthy(c.before) /\ Truthy(c.value)))
           /\ c.hadFall => (c.fell <=> (Truthy(c.before) /\ ~Truthy(c.value)))

\* C6: the edge event of a registered slot is fired iff the value
\* before and the committed value are both present and the transition is
\* falsy to truthy (rising) or truthy to falsy (falling); a commit on a
\* signal that held no value fires no edge event; a fired slot is emptied
\* and an unfired one is kept.
C6_EdgeIffPresentTransition ==
    \A i \in DOMAIN commits :
        LET c == commits[i]
            present == c.before # None /\ c.value # None
        IN /\ c.hadRise => (c.rose <=> (present /\ c.before = 0 /\ c.value # 0))
           /\ c.hadFall => (c.fell <=> (present /\ c.before # 0 /\ c.value = 0))
           /\ c.before = None => (~c.rose /\ ~c.fell)
           /\ c.hadRise => (c.keptRise <=> ~c.rose)
           /\ c.hadFall => (c.keptFall <=> ~c.fell)

\* C6, witness: a commit from 0 to a truthy value fired a registered
\* rising-edge event with a waiter, which is now in the queue
C6_Witness ==
    \E i \in DOMAIN commits :
        /\ commits[i].hadRise /\ commits[i].rose
        /\ commits[i].before = 0 /\ commits[i].value = 1
        /\ \E k \in DOMAIN queue :
              queue[k].kind = "event" /\ queue[k].tag = "rising_edge" /\ queue[k].cbs # <<>>

\* C7: for every commit of a signal whose change slot holds an event, the
\* event is fired iff the committed value differs from the value before; a
\* commit of an equal value fires no event and leaves the slots registered.
C7_ChangeIffDifferent ==
    \A i \in DOMAIN commits :
        LET c == commits[i]
        IN /\ c.hadEvent => (c.changed <=> c.value # c.before)
           /\ c.hadEvent => (c.keptEvent <=> ~c.changed)
           /\ c.value = c.before =>
                 /\ ~c.rose /\ ~c.fell /\ ~c.changed
                 /\ c.keptRise = c.hadRise
                 /\ c.keptFall = c.hadFall
                 /\ c.keptEvent = c.hadEvent

\* C7, witness: a commit re-installed the value a signal held while a
\* process waited on its change event, and the process still waits
C7_Witness ==
    \E i \in DOMAIN commits :
        LET c == commits[i]
        IN /\ c.hadEvent /\ c.before # None /\ c.value = c.before
           /\ TimesCommitted(c.s) = 1
           /\ sig[c.s].event.state = "pending" /\ sig[c.s].event.cbs # <<>>

\* the sinks of s that only s drives and assign was never called on
PureSinks(s) ==
    {k \in Range(sig[s].sinks) : sig[k].sources = <<s>> /\ k \notin direct}

\* C8: after the commit triggered by an assign on a source, every sink that
\* only this source drives holds the source's value: all of them the same.
C8_FanOut ==
    (commits # <<>> /\ last.kind \in {"init", "interrupt", "timeout"}) =>
        LET s == commits[1].s
        IN \A k \in PureSinks(s) :
              /\ sig[k].value = sig[s].value
              /\ sig[k].next_value = None

\* C8, witness: a source with two or more such sinks went from one held
\* value to another, and the sinks followed
C8_Witness ==
    /\ commits # <<>>
    /\ LET s == commits[1].s
       IN /\ Cardinality(PureSinks(s)) >= 2
          /\ commits[1].before # None /\ commits[1].value # None
          /\ commits[1].before # commits[1].value
          /\ \A k \in PureSinks(s) : sig[k].value = commits[1].value

(* ----------------------- the double assignment ------------------------- *)
(* One process assigns signal 1 with a delay and assigns it again, in the  *)
(* same segment or after a wait; every other process waits for a change of *)
(* the signal. The commits of the whole run are kept in hist.              *)

\* the delays of the two assignments and of the wait between them: whole
\* ticks
TwiceDelays == {k * Scale : k \in 1 .. MaxDelay}

TwiceProg(v1, d1, gap, v2, d2) ==
    <<Instr("assign", 1, v1, d1)>>
    \o (IF gap = None THEN <<>> ELSE <<Instr("wait", None, None, gap)>>)
    \o <<Instr("assign", 1, v2, d2)>>

TwicePrograms ==
    {TwiceProg(v1, d1, gap, v2, d2) :
        v1 \in Values, d1 \in TwiceDelays, gap \in {None} \cup TwiceDelays,
        v2 \in Values, d2 \in {None} \cup TwiceDelays}

Program(prog) ==
    [kind |-> "prog", prog |-> prog, pc |-> 1, state |-> "unstarted", segs |-> 0,
     at |-> 0]

InitTwice ==
    /\ InitCommon
    /\ sig \in {FanOut(None), FanOut(0)}
    /\ \E prog \in TwicePrograms :
          user = [p \in 1 .. NUser |->
                    IF p = 1 THEN Program(prog)
                    ELSE Program(<<Instr("event", 1, None, None)>>)]
    /\ kwargs = <<>>
    /\ track = TRUE

\* the run lasts until both delays have expired, whatever the wait between
TwiceUntil == (3 * MaxDelay + 1) * Scale

NextTwice ==
    \/ RunStart(TwiceUntil, Ascending(NUser), Ascending(NSig))
    \/ Step(<<>>)

SpecTwice == InitTwice /\ [][NextTwice]_vars

\* the two assignments, the tick of the second and the tick its commit is due
TwiceFirst == user[1].prog[1]
TwiceSecond == user[1].prog[Len(user[1].prog)]
TwiceAt == IF Len(user[1].prog) = 3 THEN WaitTicks(user[1].prog[2].d) ELSE 0
TwiceDue == TwiceAt + (IF TwiceSecond.d = None THEN 0 ELSE WaitTicks(TwiceSecond.d))

\* the commits of signal 1 so far
TwiceCommits == SelectSeq(hist, LAMBDA c : c.s = 1)

\* C3: when the second assign comes before the first delay has elapsed, the
\* two assignments give exactly one commit of the signal: it happens d2 after
\* the second assign (in the urgent pass of that tick when d2 is omitted), it
\* installs v2, and there is no commit when the first delay would have
\* expired.
C3_OneCommit ==
    TwiceAt < WaitTicks(TwiceFirst.d) =>
        /\ Len(TwiceCommits) <= 1
        /\ \A i \in DOMAIN TwiceCommits :
              /\ TwiceCommits[i].tick = TwiceDue
              /\ TwiceCommits[i].value = TwiceSecond.v
        /\ now > TwiceDue => (Len(TwiceCommits) = 1 /\ sig[1].value = TwiceSecond.v)
        /\ TwiceSecond.d = None =>
              \A i \in DOMAIN commits : commits[i].s = 1 => last.kind \in UrgentKinds

\* C3, witness: the second assign came a wait after the first, with another
\* value and a delay that ends at another tick than the first would have; the
\* one commit happened when the second delay expired
C3_Witness ==
    /\ TwiceAt > 0 /\ TwiceAt < WaitTicks(TwiceFirst.d)
    /\ TwiceSecond.d # None /\ TwiceSecond.v # TwiceFirst.v
    /\ TwiceDue # WaitTicks(TwiceFirst.d)
    /\ now > TwiceDue /\ now > WaitTicks(TwiceFirst.d)
    /\ Len(TwiceCommits) = 1
    /\ TwiceCommits[1].tick = TwiceDue
    /\ sig[1].value = TwiceSecond.v

(* --------------------------- initial values ---------------------------- *)
(* Every graph, with initial values at its ends; the last signal may have  *)
(* had its events obtained at construction. One process waits a tick and   *)
(* then drives signal 1; every other waits for a change of the last        *)
(* signal.                                                                 *)

\* the edge and change events of the last signal obtained at construction
WithSlots(S) ==
    [S EXCEPT ![NSig].rising_edge = PendingSlot, ![NSig].falling_edge = PendingSlot,
              ![NSig].event = PendingSlot]

InitSeed ==
    /\ InitCommon
    /\ sig \in Graphs \cup {WithSlots(g) : g \in Graphs}
    /\ user = [p \in 1 .. NUser |->
                 IF p = 1
                 THEN Program(<<Instr("wait", None, None, Scale), Instr("assign", 1, 1, None)>>)
                 ELSE Program(<<Instr("event", NSig, None, None)>>)]
    /\ kwargs = <<>>
    /\ track = FALSE

NextSeed ==
    \/ \E signals \in Orders(NSig) : RunStart(MaxTick * Scale, Ascending(NUser), signals)
    \/ Step(<<>>)

SpecSeed == InitSeed /\ [][NextSeed]_vars

\* the signals reached from the set S over at most n connections to sinks
RECURSIVE DrivesFrom(_, _)
DrivesFrom(S, n) ==
    IF n = 0 THEN S
    ELSE DrivesFrom(S \cup UNION {Range(sig[k].sinks) : k \in S}, n - 1)

\* the signals s drives, directly or transitively, and s itself
Drives(s) == DrivesFrom({s}, Len(sig))

\* the signals reached from the set S over at most n connections, to sinks
\* or to sources
RECURSIVE BoundFrom(_, _)
BoundFrom(S, n) ==
    IF n = 0 THEN S
    ELSE BoundFrom(S \cup UNION {Range(sig[k].sinks) \cup Range(sig[k].sources) : k \in S},
                   n - 1)

\* the signals bound to s in either direction, directly or transitively
BoundTo(s) == BoundFrom({s}, Len(sig))

\* the signals configured with an initial value
Seeds == {s \in DOMAIN sig : sig[s].initial_value # None}

\* the state Simulator.run leaves just before the loop of its first call: the
\* initial values are propagated and no process has run
Seeded == ninit = 1 /\ now = 0 /\ phase = "running" /\ last = NoEntry

\* nothing was fired or scheduled but the starts of the processes
SeedingSilent ==
    /\ \A i \in DOMAIN queue : queue[i].kind \in {"init", "until"}
    /\ \A i \in DOMAIN queue : queue[i].kind = "init" => queue[i].proc \in DOMAIN user
    /\ upd = EmptyUpd
    /\ \A s \in DOMAIN sig : sig[s].action = None /\ sig[s].next_value = None

\* C9, as stated: at tick 0 before any process has run, every signal with an
\* initial value and every signal bound to it directly or transitively holds
\* that value as value and last_value, and the seeding fired no event and
\* scheduled no delayed action.
C9_SeedsAllBound ==
    Seeded =>
        /\ \A s \in Seeds : \A k \in BoundTo(s) :
              /\ sig[k].value = sig[s].initial_value
              /\ sig[k].last_value = sig[s].initial_value
        /\ SeedingSilent

\* C9: at tick 0 before any process has run, a signal with an initial value,
\* and every signal it drives directly or transitively, holds that value as
\* value and last_value unless a signal with another initial value drives it
\* too (then it holds one of those values); a signal no seeded signal drives
\* holds no value; the seeding fired no event and scheduled no delayed action.
C9_SeedsDriven ==
    Seeded =>
        /\ \A k \in DOMAIN sig :
              LET ivs == {sig[s].initial_value : s \in {x \in Seeds : k \in Drives(x)}}
              IN /\ sig[k].value = sig[k].last_value
                 /\ IF ivs = {} THEN sig[k].value = None ELSE sig[k].value \in ivs
        /\ SeedingSilent

\* C9, witness: a seeded signal with two or more signals behind it, one of
\* them with registered events, all holding its initial value before any
\* process has run
C9_Witness ==
    /\ Seeded
    /\ \E s \in Seeds :
          /\ Cardinality(Drives(s)) >= 3
          /\ \A k \in Drives(s) : sig[k].value = sig[s].initial_value
          /\ \E k \in Drives(s) \ {s} : sig[k].event.state = "pending"

(* ------------------------ the clock and counters ----------------------- *)
(* BindingTB with n counters: signal 1 is clk (initial value 0), signal    *)
(* 1 + i is cnt[i]; counter i has the input port clk_i and the output port *)
(* cnt_o, bound by keyword to clk and to cnt[i]. Process i is the run of   *)
(* counter i and process n + 1 the clock of the test bench. The edge       *)
(* accessors are properties, so the counter yields clk_i.rising_edge.      *)

Clk == 1
Cnt(i) == 1 + i
ClkI(n, i) == n + 2 * i
CntO(n, i) == n + 2 * i + 1

\* BindingTB.__init__ and Counter.__init__: the signals and ports
CounterSignals(n) ==
    [s \in 1 .. (3 * n + 1) |->
        IF s = Clk THEN NewSignal("none", 0)
        ELSE IF s <= n + 1 THEN NewSignal("none", None)
        ELSE IF (s - n) % 2 = 0 THEN NewSignal("input", None)
        ELSE NewSignal("output", None)]

\* the keyword bindings of the counters, in instance and keyword order
CounterBindings(n) ==
    [k \in 1 .. (2 * n) |->
        LET i == (k + 1) \div 2
        IN IF k % 2 = 1 THEN [kind |-> "port", port |-> ClkI(n, i), other |-> Clk]
           ELSE [kind |-> "port", port |-> CntO(n, i), other |-> Cnt(i)]]

\* Counter.run
CounterRun(n, i) ==
    Program(<<Instr("assign", CntO(n, i), 0, None),
              Instr("rising_edge", ClkI(n, i), None, None),
              Instr("inc", CntO(n, i), None, None),
              Instr("goto", None, 2, None)>>)

\* a clock that starts with its low half period
ClockRunLowFirst ==
    Program(<<Instr("assign", Clk, 0, None),
              Instr("wait", None, None, HalfPeriod * Scale),
              Instr("assign", Clk, 1, None),
              Instr("wait", None, None, HalfPeriod * Scale),
              Instr("goto", None, 1, None)>>)

\* BindingTB.clock
ClockRun ==
    Program(<<Instr("assign", Clk, 1, None),
              Instr("wait", None, None, HalfPeriod * Scale),
              Instr("assign", Clk, 0, None),
              Instr("wait", None, None, HalfPeriod * Scale),
              Instr("goto", None, 1, None)>>)

\* Module.propagate_initial_values of the test bench: the signals of the
\* instances first, then its own
CounterOrder(n) ==
    [k \in 1 .. (3 * n + 1) |-> IF k <= 2 * n THEN n + 1 + k ELSE k - 2 * n]

InitCounter ==
    /\ InitCommon
    /\ \E n \in 1 .. MaxCounters :
          /\ sig = CounterSignals(n)
          /\ user = [p \in 1 .. (n + 1) |-> IF p <= n THEN CounterRun(n, p) ELSE ClockRun]
          /\ kwargs = CounterBindings(n)
    /\ track = TRUE

\* run(100 time units): the quotient of the two floats is just below 100 and
\* int() takes it to 99; both tick counts are tried
NextCounter ==
    \/ \E until \in {RunTicks * Scale, RunTicks * Scale - 1} :
          RunStart(until, Ascending(Len(user)), CounterOrder(Len(user) - 1))
    \/ Step(<<>>)

SpecCounter == InitCounter /\ [][NextCounter]_vars

ClockRises ==
    {hist[k].tick : k \in {j \in DOMAIN hist :
        hist[j].s = Clk /\ hist[j].before = 0 /\ hist[j].value = 1}}

NestedClk == 1
NestedL1In == 2
NestedL2In == 3
NestedL2Out == 4
NestedL1Out == 5
NestedTmp == 6

\* Level1.__init__ (which builds Level2) and then TB.__init__
NestedSignals ==
    LET S0 == [s \in 1 .. 6 |->
                 IF s = NestedClk THEN NewSignal("none", 0)
                 ELSE IF s = NestedTmp THEN NewSignal("none", None)
                 ELSE IF s \in {NestedL1In, NestedL2In} THEN NewSignal("input", None)
                 ELSE NewSignal("output", None)]
        bindings == <<[port |-> NestedL2In, other |-> NestedL1In],
                      [port |-> NestedL2Out, other |-> NestedL1Out],
                      [port |-> NestedL1In, other |-> NestedClk],
                      [port |-> NestedL1Out, other |-> NestedTmp]>>
    IN BindAll([sig |-> S0], bindings).sig

\* Level2.run: the forwarding delay is one tick
Level2Run ==
    Program(<<Instr("event", NestedL2In, None, None),
              Instr("copy", NestedL2Out, NestedL2In, Scale),
              Instr("goto", None, 1, None)>>)

\* TB.clock with a half period of h ticks
NestedClock(h) ==
    Program(<<Instr("assign", NestedClk, 1, None),
              Instr("wait", None, None, h * Scale),
              Instr("assign", NestedClk, 0, None),
              Instr("wait", None, None, h * Scale),
              Instr("goto", None, 1, None)>>)

\* the half periods tried: the forwarding delay, up to MaxHalf ticks, and
\* that of the test bench
NestedHalves == (1 .. MaxHalf) \cup {HalfPeriod}

InitNested ==
    /\ InitCommon
    /\ sig = NestedSignals
    /\ \E h \in NestedHalves : user = <<Level2Run, NestedClock(h)>>
    /\ kwargs = <<>>
    /\ track = TRUE

\* the signals of the instances are seeded first, innermost first
NestedOrder == <<NestedL2In, NestedL2Out, NestedL1In, NestedL1Out, NestedClk, NestedTmp>>

NextNested ==
    \/ RunStart(RunTicks * Scale, Ascending(2), NestedOrder)
    \/ Step(<<>>)

SpecNested == InitNested /\ [][NextNested]_vars

\* the half period of the clock, in ticks
NestedHalf == WaitTicks(user[2].prog[2].d)

\* the commits so far that changed the value of signal s
Changes(s) == {k \in DOMAIN hist : hist[k].s = s /\ hist[k].before # hist[k].value}

\* every change of clk committed at tick t is followed by the same value on
\* clk_tmp at tick t + 1, and clk_tmp changes at no other tick
NestedFollows ==
    /\ \A k \in Changes(NestedClk) :
          now > hist[k].tick + 1 =>
             \E j \in Changes(NestedTmp) :
                hist[j].tick = hist[k].tick + 1 /\ hist[j].value = hist[k].value
    /\ \A j \in Changes(NestedTmp) :
          \E k \in Changes(NestedClk) :
             hist[k].tick + 1 = hist[j].tick /\ hist[k].value = hist[j].value

FireOnce(v) == <<Instr("fire_event", NSig, v, None)>>
AWait == <<Instr("wait", None, None, Scale)>>

FirePrograms ==
    {FireOnce(v) : v \in Values}
    \cup {FireOnce(v) \o FireOnce(w) : v, w \in Values}
    \cup {AWait \o FireOnce(v) : v \in Values}
    \cup {AWait \o FireOnce(v) \o FireOnce(w) : v, w \in Values}
    \cup {AWait \o FireOnce(v) \o AWait \o FireOnce(w) : v, w \in Values}
    \cup {AWait \o FireOnce(v) \o <<Instr("assign", 1, 1, None)>> : v \in Values}

InitFire ==
    /\ InitCommon
    /\ sig = FanOut(0)
    /\ \E prog \in FirePrograms :
          user = [p \in 1 .. NUser |->
                    IF p = 1 THEN Program(prog)
                    ELSE Program(<<Instr("event", NSig, None, None),
                                   Instr("event", NSig, None, None)>>)]
    /\ kwargs = <<>>
    /\ track = FALSE

NextFire ==
    \/ RunStart(MaxTick * Scale, Ascending(NUser), Ascending(NSig))
    \/ Step(<<>>)

SpecFire == InitFire /\ [][NextFire]_vars

\* the entries call f of succeed added to the queue
FireAdded(f) ==
    SelectSeq(f.queueAfter, LAMBDA e : e \notin Range(f.queueBefore))

\* C12: a call of succeed on a pending event marks it fired and schedules it
\* once, with its waiters, in the urgent class at the current tick; a call on
\* an event that was fired fails and changes neither the event (it stays
\* fired, with its value) nor the queue: no event is fired twice.
C12_FiredOnce ==
    \A i \in DOMAIN fires :
        LET f == fires[i]
        IN /\ f.before.state = "pending" =>
                 /\ ~f.failed
                 /\ f.after.state = "fired"
                 /\ Len(f.queueAfter) = Len(f.queueBefore) + 1
                 /\ \E k \in DOMAIN f.queueAfter :
                       /\ f.queueAfter[k] =
                             Entry(f.tick, URGENT, "event", f.s, None, f.before.cbs, f.tag)
                       /\ f.queueBefore =
                             SubSeq(f.queueAfter, 1, k - 1)
                             \o SubSeq(f.queueAfter, k + 1, Len(f.queueAfter))
                       /\ \A j \in (k + 1) .. Len(f.queueAfter) :
                             f.queueAfter[j].time > f.tick
                             \/ f.queueAfter[j].prio = NORMAL
           /\ f.before.state = "fired" =>
                 /\ f.failed
                 /\ f.after = f.before
                 /\ f.queueAfter = f.queueBefore

\* C12, witness: succeed was called on an event that was fired before with
\* another value while a process waited on it
C12_Witness ==
    \E i \in DOMAIN fires :
        /\ fires[i].before.state = "fired" /\ fires[i].before.cbs # <<>>
        /\ fires[i].failed
        /\ fires[i].value # fires[i].before.val
        /\ sig[fires[i].s][fires[i].tag].val = fires[i].before.val

\* C27: in every reachable state every non-empty rising-edge, falling-edge
\* and change slot of every signal holds a pending event, and no commit
\* fails by firing a slot event that was fired before.
C27_SlotsPending ==
    /\ \A s \in DOMAIN sig, tag \in SlotTags : sig[s][tag].state # "fired"
    /\ \A i \in DOMAIN fires : fires[i].value = None => ~fires[i].failed

(* ------------------------- building the graph -------------------------- *)
(* Before the first run, signal 1 and the ports 2 .. NSig, of any          *)
(* directions, are bound, connected and disconnected, MaxOps times.        *)

Directions == {"input", "output", "inout"}

InitGraph ==
    /\ InitCommon
    /\ \E d \in [2 .. NSig -> Directions] :
          sig = [s \in Sigs |-> IF s = 1 THEN NewSignal("none", None)
                                ELSE NewSignal(d[s], None)]
    /\ user = [p \in 1 .. NUser |-> FreeProcess]
    /\ kwargs = <<>>
    /\ track = FALSE

\* one call of port.bind(other), s.connect(other) or s.disconnect(other)
\* made while the test bench is built
GraphOp(op, a, b) ==
    /\ phase = "idle" /\ ninit = 0
    /\ gop.n < MaxOps
    /\ a # b
    /\ op = "bind" => sig[a].direction # "none"
    /\ LET r == IF op = "bind" THEN Bind(Cur, a, b)
                ELSE IF op = "connect" THEN Connect(Cur, a, b)
                ELSE Disconnect(Cur, a, b)
       IN /\ sig' = r.sig
          /\ err' = r.exc
          /\ gop' = [op |-> op, a |-> a, b |-> b, before |-> sig,
                     failed |-> r.exc # "", n |-> gop.n + 1]
    /\ UNCHANGED <<now, queue, user, upd, phase, kwargs, commits, hist, track,
                   direct, last, woke, fires, modules, ninit>>

NextGraph ==
    \/ \E a, b \in Sigs : GraphOp("bind", a, b)
    \/ \E a, b \in Sigs : GraphOp("connect", a, b)
    \/ \E a, b \in Sigs : GraphOp("disconnect", a, b)

SpecGraph == InitGraph /\ [][NextGraph]_vars

\* how often x occurs in the list seq
Count(seq, x) == Cardinality({i \in DOMAIN seq : seq[i] = x})

\* the lists of sinks and of sources are those of the graph before, with one
\* reference more for each edge of add and one less for each edge of drop,
\* new references last; an edge is a pair <<source, sink>>
EdgesChanged(add, drop) ==
    \A s \in DOMAIN sig :
        LET old == gop.before[s]
            newSinks == {e[2] : e \in {x \in add : x[1] = s}}
            newSources == {e[1] : e \in {x \in add : x[2] = s}}
        IN /\ \A k \in DOMAIN sig :
                 /\ Count(sig[s].sinks, k) = Count(old.sinks, k)
                       + (IF <<s, k>> \in add THEN 1 ELSE 0)
                       - (IF <<s, k>> \in drop THEN 1 ELSE 0)
                 /\ Count(sig[s].sources, k) = Count(old.sources, k)
                       + (IF <<k, s>> \in add THEN 1 ELSE 0)
                       - (IF <<k, s>> \in drop THEN 1 ELSE 0)
           /\ newSinks # {} => sig[s].sinks = Append(old.sinks, CHOOSE k \in newSinks : TRUE)
           /\ newSources # {} =>
                 sig[s].sources = Append(old.sources, CHOOSE k \in newSources : TRUE)
           /\ [sig[s] EXCEPT !.sinks = <<>>, !.sources = <<>>]
                 = [old EXCEPT !.sinks = <<>>, !.sources = <<>>]

\* C13: binding the port P to the signal X adds exactly the edge X -> P when
\* P is an input port, exactly P -> X when it is an output port, and both
\* when it is an inout port; no other edge is added or removed, and the bind
\* does not fail.
C13_BindEdges ==
    gop.op = "bind" =>
        LET P == gop.a
            X == gop.b
            d == gop.before[P].direction
        IN /\ ~gop.failed
           /\ d = "input" => EdgesChanged({<<X, P>>}, {})
           /\ d = "output" => EdgesChanged({<<P, X>>}, {})
           /\ d = "inout" => EdgesChanged({<<X, P>>, <<P, X>>}, {})

\* C13, witness: an inout port was bound to a signal that already had an
\* edge, and both edges between them were added
C13_Witness ==
    /\ gop.op = "bind" /\ gop.before[gop.a].direction = "inout"
    /\ \E s \in DOMAIN sig : gop.before[s].sinks # <<>>
    /\ gop.a \in Range(sig[gop.b].sinks) /\ gop.b \in Range(sig[gop.a].sinks)
    /\ gop.a \notin Range(gop.before[gop.b].sinks)

\* C14: connect(A, B) fails when B is already a sink of A, disconnect(A, B)
\* fails when it is not, and a failed call leaves the sinks and sources of
\* every signal as they were; a disconnect that succeeds removes B from the
\* sinks of A and A from the sources of B together, and a connect that
\* succeeds adds both.
C14_ConnectChecked ==
    LET A == gop.a
        B == gop.b
        had == B \in Range(gop.before[A].sinks)
    IN /\ gop.op = "connect" =>
             /\ gop.failed <=> had
             /\ gop.failed => (sig = gop.before /\ err = "ValueError")
             /\ ~gop.failed => EdgesChanged({<<A, B>>}, {})
       /\ gop.op = "disconnect" =>
             /\ gop.failed <=> ~had
             /\ gop.failed => (sig = gop.before /\ err = "ValueError")
             /\ ~gop.failed => EdgesChanged({}, {<<A, B>>})

\* C14, witness: an edge was connected, disconnected, and the disconnect was
\* tried once more and failed on a graph that has other edges
C14_Witness ==
    /\ gop.op = "disconnect" /\ gop.failed /\ gop.n >= 3
    /\ sig = gop.before
    /\ \E s \in DOMAIN sig : sig[s].sinks # <<>>
    /\ gop.b \notin Range(sig[gop.a].sinks)

\* C29: the connection graph stays symmetric after any sequence of connect,
\* disconnect and bind operations, failing ones included: for all signals A
\* and B, B occurs in A.sinks as often as A occurs in B.sources.
C29_Symmetric ==
    \A a, b \in DOMAIN sig : Count(sig[a].sinks, b) = Count(sig[b].sources, a)

\* C29, witness: the last of MaxOps operations failed on a graph in which
\* one signal is twice the sink of another
C29_Witness ==
    /\ gop.n = MaxOps /\ gop.failed
    /\ \E a, b \in DOMAIN sig : Count(sig[a].sinks, b) = 2 /\ Count(sig[b].sources, a) = 2

(* --------------------------- waits and runs ---------------------------- *)
(* Process 1 waits twice, for any times from 0 to MaxWait quanta, and then *)
(* assigns signal 1, at once or a tick later; the other processes wait a   *)
(* tick and assign their signal. The test bench is run, again and again,   *)
(* until any time from 0 to MaxUntil quanta.                               *)

MaxWait == 2 * Scale + 1
MaxUntil == MaxTick * Scale + 1

WaitTimes == 0 .. MaxWait
UntilTimes == 0 .. MaxUntil

Wait(time) == Instr("wait", None, None, time)

WaitPrograms ==
    {<<Wait(w1), Wait(w2), Instr("assign", 1, 1, d)>> :
        w1 \in WaitTimes, w2 \in WaitTimes, d \in {None, Scale}}

InitWait ==
    /\ InitCommon
    /\ sig = FanOut(0)
    /\ \E prog \in WaitPrograms :
          user = [p \in 1 .. NUser |->
                    IF p = 1 THEN Program(prog)
                    ELSE Program(<<Wait(Scale), Instr("assign", p, 1, None)>>)]
    /\ kwargs = <<>>
    /\ track = TRUE

NextWait ==
    \/ \E until \in UntilTimes : RunStart(until, Ascending(NUser), Ascending(NSig))
    \/ Step(<<>>)

SpecWait == InitWait /\ [][NextWait]_vars

\* the processes a timeout at the head of the queue is about to resume from
\* a wait, with the time each asked for
Waking == IF Front.kind = "timeout" /\ phase = "running"
          THEN {p \in Range(Front.cbs) : p \in DOMAIN user /\ user[p].kind = "prog"}
          ELSE {}

Asked(p) == user[p].prog[user[p].pc - 1].d

\* round(time / timescale): Python rounds to the nearest integer and a tie
\* to the even one
Round(time) ==
    LET q == time \div Scale
        r == time % Scale
    IN IF 2 * r < Scale THEN q
       ELSE IF 2 * r > Scale THEN q + 1
       ELSE IF q % 2 = 0 THEN q ELSE q + 1

\* C15: a process that calls wait, with any time from 0 on, times below the
\* timescale included, is resumed at a later tick than the tick of the call,
\* and has not run in between.
C15_WaitsATick ==
    [][\A p \in Waking : /\ Front.time >= user[p].at + 1
                         /\ now' = Front.time
                         /\ user[p].state = "wait"]_vars

\* C15, witness: a process that asked for a wait of 0 or of less than a tick
\* at a tick after the start is about to be resumed, one tick later
C15_Witness ==
    \E p \in Waking : /\ Asked(p) < Scale
                      /\ user[p].at > 0
                      /\ Front.time = user[p].at + 1
                      /\ now = user[p].at

\* C16: wait(s) suspends for max(1, round(s / timescale)) ticks and run(u)
\* runs until the tick round(u / timescale).
C16_RoundsToNearest ==
    /\ \A p \in Waking : Front.time = user[p].at + Max(1, Round(Asked(p)))
    /\ \A k \in DOMAIN queue :
          queue[k].kind = "until" => queue[k].time = Round(queue[k].cause)

\* C17: over any sequence of runs, one that fails or whose time is less than
\* a tick included, the test bench is initialized once, by the first run:
\* no routine is started a second time.
C17_InitializedOnce ==
    /\ ninit <= 1
    /\ Len(user) = NUser
    /\ Len(SelectSeq(queue, LAMBDA e : e.kind = "init")) <= NUser

\* C18: when a run has returned, having stopped at its target tick, the
\* current tick is the target and the queue holds nothing scheduled at or
\* before it: every timeout and every commit due at the target was executed.
C18_NothingLeftBehind ==
    (phase = "idle" /\ last.kind = "until") =>
        /\ now = last.time
        /\ \A k \in DOMAIN queue : queue[k].time > last.time

(* ---------------------------- lists of ports --------------------------- *)
(* A module has the ports 2 .. NSig, all inputs or all outputs, of which    *)
(* the first or all form a list port; its one keyword binding binds the    *)
(* list port to signal 1, given alone or in a list of up to NSig copies,   *)
(* or names a port, an attribute that is no port, or no attribute.         *)

ListPorts == {SubSeq(Ascending(NSig), 2, n) : n \in 2 .. NSig}
ListValues == {[k \in 1 .. n |-> 1] : n \in 0 .. NSig}

ListBindings ==
    {[kind |-> "list", port |-> p, other |-> v, islist |-> TRUE] :
        p \in ListPorts, v \in ListValues}
    \cup {[kind |-> "list", port |-> p, other |-> <<1>>, islist |-> FALSE] : p \in ListPorts}
    \cup {[kind |-> k, port |-> 2, other |-> 1, islist |-> FALSE] :
            k \in {"port", "other", "missing"}}

InitBind ==
    /\ InitCommon
    /\ \E d \in {"input", "output"} :
          sig = [s \in Sigs |-> IF s = 1 THEN NewSignal("none", 0) ELSE NewSignal(d, None)]
    /\ \E v \in Values, w \in WaitTimes :
          user = [p \in 1 .. NUser |->
                    Program(<<Instr("assign", (IF sig[2].direction = "input" THEN 1 ELSE p + 1),
                                    v, None),
                              Wait(w),
                              Instr("assign", (IF sig[2].direction = "input" THEN 1 ELSE p + 1),
                                    1 - v, None)>>)]
    /\ \E b \in ListBindings : kwargs = <<b>>
    /\ track = TRUE

BindUntil == (MaxTick + 1) * Scale

NextBind ==
    \/ RunStart(BindUntil, Ascending(NUser), Ascending(NSig))
    \/ Step(<<>>)

SpecBind == InitBind /\ [][NextBind]_vars

\* no port of the list is bound to anything
Unbound(port) ==
    /\ \A k \in DOMAIN port : sig[port[k]].sinks = <<>> /\ sig[port[k]].sources = <<>>
    /\ sig[1].sinks = <<>> /\ sig[1].sources = <<>>

\* C19: once the module is initialized, a list port bound to a list of
\* another length was rejected with an error and none of its ports is bound;
\* a list port bound to a single signal was rejected likewise unless it has
\* one port, which is then bound to the signal.
C19_MismatchRejected ==
    LET b == kwargs[1]
    IN (ninit >= 1 /\ b.kind = "list") =>
          /\ (b.islist /\ Len(b.other) # Len(b.port)) =>
                (phase = "idle" /\ err = "ValueError" /\ Unbound(b.port))
          /\ (~b.islist /\ Len(b.port) # 1) =>
                (phase = "idle" /\ err = "ValueError" /\ Unbound(b.port))
          /\ (~b.islist /\ Len(b.port) = 1) =>
                (sig[1].sinks = b.port \/ sig[1].sources = b.port)

(* --------------------------- trees of modules -------------------------- *)
(* MaxModules modules, the first the root, each with MaxNames generator    *)
(* methods, of which the classes of the module tag some as processes: a    *)
(* module is a record of the sets of names tagged by its class, the base   *)
(* of its class, and so on, and of the list of its instances. Method name  *)
(* of module m is process Routine(m, name); it assigns signal 1 and waits. *)

Names == 1 .. MaxNames
Routine(m, name) == (m - 1) * MaxNames + name

\* a variant of processes that leaves out the names tagged by base classes
ProcessesOwn(tagged) == IF tagged = <<>> THEN {} ELSE Head(tagged)

\* ModuleBase: the property processes of a class whose tagged names, and
\* those of its bases, are the sets of the list tagged; object, after the
\* last base, has no attribute processes
RECURSIVE Processes(_)
Processes(tagged) ==
    IF tagged = <<>> THEN {}
    ELSE Head(tagged) \cup Processes(Tail(tagged))

\* the orders in which a for loop may visit the set S
SetOrders(S) ==
    {f \in [1 .. Cardinality(S) -> S] : \A i, j \in DOMAIN f : f[i] = f[j] => i = j}

\* Module.initialize, the processes started in order: those of the instances,
\* instance after instance, then the module's own in the order of the set
RECURSIVE InitializeOrders(_, _)
InitializeOrders(ms, m) ==
    LET RECURSIVE Inst(_)
        Inst(is) ==
            IF is = <<>> THEN {<<>>}
            ELSE {a \o b : a \in InitializeOrders(ms, Head(is)), b \in Inst(Tail(is))}
        own == {[i \in DOMAIN f |-> Routine(m, f[i])] :
                   f \in SetOrders(Processes(ms[m].tagged))}
    IN {a \o b : a \in Inst(ms[m].instances), b \in own}

\* the classes: a class alone or a class with one base, each tagging any names
Classes ==
    {<<own>> : own \in SUBSET Names}
    \cup {<<own, base>> : own \in SUBSET Names, base \in SUBSET Names}

\* the trees: the root alone holds all the others, or module m holds m + 1,
\* or the root holds module 2 only
Trees ==
    {[m \in 1 .. MaxModules |-> IF m = 1 THEN [k \in 1 .. (MaxModules - 1) |-> k + 1] ELSE <<>>],
     [m \in 1 .. MaxModules |-> IF m < MaxModules THEN <<m + 1>> ELSE <<>>],
     [m \in 1 .. MaxModules |-> IF m = 1 THEN <<2>> ELSE <<>>]}

InitTree ==
    /\ InitSimulator
    /\ \E tree \in Trees, c1 \in Classes, c2 \in Classes :
          modules = [m \in 1 .. MaxModules |->
                        [tagged |-> IF m = 1 THEN c1 ELSE IF m = 2 THEN c2 ELSE <<{1}>>,
                         instances |-> tree[m]]]
    /\ sig = FanOut(0)
    /\ user = [p \in 1 .. (MaxModules * MaxNames) |->
                 Program(<<Instr("assign", 1, p % 2, None), Wait(Scale)>>)]
    /\ kwargs = <<>>
    /\ track = TRUE

NextTree ==
    \/ \E procs \in InitializeOrders(modules, 1) :
          RunStart(MaxTick * Scale, procs, Ascending(NSig))
    \/ Step(<<>>)

SpecTree == InitTree /\ [][NextTree]_vars

\* the modules of the tree, the root and two levels of instances
InTree ==
    LET l1 == Range(modules[1].instances)
        l2 == UNION {Range(modules[m].instances) : m \in l1}
        l3 == UNION {Range(modules[m].instances) : m \in l2}
    IN {1} \cup l1 \cup l2 \cup l3

\* the names a class or one of its bases tags
TaggedBy(m) == UNION {modules[m].tagged[k] : k \in DOMAIN modules[m].tagged}

\* how often the routine was started: its Initialize events still queued,
\* and one more when it has run
Starts(p) ==
    Len(SelectSeq(queue, LAMBDA e : e.kind = "init" /\ e.proc = p))
        + (IF user[p].state \in {"unstarted", "init"} THEN 0 ELSE 1)

\* C20: once the test bench is initialized, every method tagged as a process
\* by the class of a module of the tree or by a base of that class has been
\* started exactly once and no other method has; a started process runs its
\* first segment at tick 0: while it has not, the tick is 0.
C20_StartedOnceAtZero ==
    ninit >= 1 =>
        /\ Len(user) = MaxModules * MaxNames
        /\ \A m \in 1 .. MaxModules, name \in Names :
              LET p == Routine(m, name)
              IN IF m \in InTree /\ name \in TaggedBy(m)
                 THEN /\ Starts(p) = 1
                      /\ user[p].state # "unstarted"
                      /\ user[p].state = "init" => now = 0
                      /\ user[p].state # "init" => user[p].pc > 1
                 ELSE Starts(p) = 0 /\ user[p].state = "unstarted"
        /\ \A k \in DOMAIN queue : queue[k].kind = "init" => queue[k].time = 0

\* C20, witness: time has advanced in a tree two levels deep, and a method
\* that only a base class tags has run its first segment in an instance
\* that holds an instance
C20_Witness ==
    /\ ninit = 1 /\ now > 0
    /\ modules[2].instances # <<>>
    /\ \E name \in Names :
          /\ Len(modules[2].tagged) = 2
          /\ name \in modules[2].tagged[2] \ modules[2].tagged[1]
          /\ user[Routine(2, name)].state = "wait"
          /\ user[Routine(2, name)].at = 0

\* Environment.run: step after step until the stop event is popped or a
\* process has failed
RECURSIVE Run(_, _)
Run(st, n) ==
    IF n = 0 \/ st.queue = <<>> THEN st
    ELSE LET e == Head(st.queue)
             a == EnvStep(st, <<>>)
         IN IF e.kind = "until" \/ (e.kind = "procend" /\ e.tag # "") THEN a
            ELSE Run(a, n - 1)

\* the test bench as it was constructed
Constructed ==
    [Cur EXCEPT !.now = 0, !.queue = <<>>, !.sig = FanOut(0),
                !.user = [p \in DOMAIN user |-> Program(user[p].prog)],
                !.upd = EmptyUpd, !.commits = <<>>, !.hist = <<>>,
                !.direct = {}, !.fires = <<>>]

\* a first run of the test bench that starts the processes in the given
\* order, to its end
RunOf(procs) ==
    LET a == Initialize(Constructed, procs, Ascending(NSig))
    IN Run([a EXCEPT !.queue = Schedule(@,
                Entry(MaxTick, URGENT, "until", None, MaxTick * Scale, <<>>, ""))],
           MaxSteps)

\* C28: a run is deterministic: for the same module tree and process
\* definitions, every run commits the same values in the same sequence and
\* ends with the same signal values, whatever the order in which the
\* tagged processes of one module are started at tick 0.
C28_Deterministic ==
    (last.kind = "until" /\ ninit = 1) =>
        \A procs \in InitializeOrders(modules, 1) :
            LET r == RunOf(procs)
            IN /\ hist = r.hist
               /\ \A s \in DOMAIN sig : sig[s].value = r.sig[s].value

(* --------------------------- shared signals ---------------------------- *)
(* Process 1 assigns signal 1 twice, a wait apart; the other processes     *)
(* wait and assign signal 2 or the last signal. Signal 1 drives the others *)
(* (fan-out), or each signal drives the next (chain), or all drive the     *)
(* last (fan-in), so that the second writer assigns a sink of signal 1, or *)
(* another source of its sink. Every signal starts with the value 0.       *)

\* fan-in: the output ports 1 .. NSig - 1 are bound to signal NSig
FanIn(iv) ==
    LET S0 == [s \in Sigs |-> IF s = NSig THEN NewSignal("none", iv)
                              ELSE NewSignal("output", iv)]
        bindings == [k \in 1 .. (NSig - 1) |-> [port |-> k, other |-> NSig]]
    IN BindAll([sig |-> S0], bindings).sig

SharedGraphs == {FanOut(0), Chain(0, 0), FanIn(0)}

SharedDelays == {None, Scale, 2 * Scale}
SharedWaits == {Scale, 2 * Scale}

FirstWriter ==
    {<<Instr("assign", 1, v1, d1), Wait(w), Instr("assign", 1, v2, d2)>> :
        v1 \in Values \cup {None}, d1 \in SharedDelays, w \in SharedWaits,
        v2 \in Values, d2 \in SharedDelays}

SecondWriter ==
    {<<Wait(w), Instr("assign", s, v, d)>> :
        w \in SharedWaits, s \in {2, NSig}, v \in Values, d \in SharedDelays}

InitShared ==
    /\ InitCommon
    /\ sig \in SharedGraphs
    /\ \E first \in FirstWriter, second \in SecondWriter :
          user = [p \in 1 .. NUser |-> IF p = 1 THEN Program(first) ELSE Program(second)]
    /\ kwargs = <<>>
    /\ track = TRUE

SharedUntil == (MaxTick + 2) * Scale

NextShared ==
    \/ RunStart(SharedUntil, Ascending(NUser), Ascending(NSig))
    \/ Step(<<>>)

SpecShared == InitShared /\ [][NextShared]_vars

\* Signal.next_value, read
NextValue(s) == IF sig[s].next_value = None THEN sig[s].value ELSE sig[s].next_value

\* the signals whose assignment is not yet committed
PendingSignals == {upd[id].sig : id \in DOMAIN upd}

\* the value of the pending assignment of signal s
PendingValue(s) == upd[CHOOSE id \in DOMAIN upd : upd[id].sig = s].value

\* the signals that were assigned and drive t, t itself included
Writers(t) == {w \in direct : t \in Drives(w)}

\* C21: from an assign of v to S until its commit, next_value reads v on S
\* and on every signal S drives, directly or transitively; a signal that no
\* pending assignment reaches has no next value, so that next_value reads
\* its value.
C21_PendingValueRead ==
    /\ \A s \in PendingSignals : \A t \in Drives(s) : NextValue(t) = PendingValue(s)
    /\ \A t \in DOMAIN sig :
          (\A s \in PendingSignals : t \notin Drives(s)) => sig[t].next_value = None

\* C21, corrected: the same, for an assigned value that is present and for
\* the signals that S alone, of the signals assigned so far, drives.
C21_SoleWriterValueRead ==
    /\ \A s \in PendingSignals : \A t \in Drives(s) :
          (PendingValue(s) # None /\ Writers(t) = {s}) => NextValue(t) = PendingValue(s)
    /\ \A t \in DOMAIN sig :
          (\A s \in PendingSignals : t \notin Drives(s)) => sig[t].next_value = None

\* C21, witness: an assignment of signal 1 waits for its delay, a signal it
\* alone drives reads the assigned value, which is not its value, and
\* another signal was assigned too
C21_Witness ==
    /\ 1 \in PendingSignals /\ PendingValue(1) # None
    /\ \E id \in DOMAIN upd : upd[id].sig = 1 /\ upd[id].state = "wait"
    /\ \E t \in Drives(1) \ {1} :
          /\ Writers(t) = {1}
          /\ NextValue(t) = PendingValue(1)
          /\ NextValue(t) # sig[t].value
    /\ Cardinality(direct) = 2

\* every assign of every process is given a present value
AssignsPresent ==
    \A p \in DOMAIN user : \A i \in DOMAIN user[p].prog :
        user[p].prog[i].op = "assign" => user[p].prog[i].v # None

\* C30: a commit never erases a held value: when the values assigned are
\* present, for every signal and every commit applied to it, as the
\* triggering signal or as a sink, a pending next value is present when the
\* commit runs, so a value present before the commit is followed by a
\* present value, whatever the graph and the interleaving of the assigns on
\* sources and sinks.
C30_NeverErased ==
    AssignsPresent =>
        \A k \in DOMAIN commits :
            /\ commits[k].pending # None
            /\ commits[k].before # None => commits[k].value # None

(* ------------------------------ structs -------------------------------- *)
(* Signal 1 has a Struct type and drives the other signals; it starts with *)
(* no value or with a namespace. Process 1 updates it twice, a tick apart, *)
(* each time through a field or with a dict that names one or both fields. *)

PartialUpdates ==
    {Instr("assign_field", 1, v, f) : v \in Values, f \in Fields}
    \cup {Instr("assign", 1, Mapping(x, y), None) : x \in 0 .. 2, y \in 0 .. 2}

InitStruct ==
    /\ InitCommon
    /\ sig \in {FanOut(None)} \cup {FanOut(Namespace(x, y)) : x \in Values, y \in Values}
    /\ \E a \in PartialUpdates, b \in PartialUpdates :
          user = [p \in 1 .. NUser |->
                    IF p = 1 THEN Program(<<a, Wait(Scale), b>>)
                    ELSE Program(<<Wait(Scale)>>)]
    /\ kwargs = <<>>
    /\ track = TRUE

NextStruct ==
    \/ RunStart(MaxTick * Scale, Ascending(NUser), Ascending(NSig))
    \/ Step(<<>>)

SpecStruct == InitStruct /\ [][NextStruct]_vars

\* the update process 1 made last
LastUpdate ==
    LET u == user[1]
        done == {k \in 1 .. (u.pc - 1) : u.prog[k].op # "wait"}
    IN u.prog[CHOOSE k \in done : \A j \in done : j <= k]

\* the value a partial update gives a field: 2 when it does not name it
Named(i, field) ==
    IF i.op = "assign_field" THEN (IF i.d = field THEN i.v ELSE 2)
    ELSE FieldOf(i.v, field)

\* C22: after the commit of a partial update of a struct signal - through a
\* field, or with a dict naming some fields - the fields named hold the new
\* values and every other field holds the value it had, or the default of
\* its type when the signal had no value; no update fails.
C22_PartialUpdate ==
    /\ err # "AttributeError"
    /\ \A k \in DOMAIN commits :
          LET c == commits[k]
              prior == IF c.before = None THEN StructDefault ELSE c.before
          IN c.s = 1 =>
                \A f \in Fields :
                    FieldOf(c.value, f) = IF Named(LastUpdate, f) # 2
                                          THEN Named(LastUpdate, f)
                                          ELSE FieldOf(prior, f)

(* --------------------------- delayed toggles --------------------------- *)
(* DelayTB: a clock with initial value 0 and one counter; the process      *)
(* initial assigns the clock 1 and 0 alternately, n pairs with a delay and *)
(* then m pairs without, waiting an interval after each assignment. The    *)
(* test bench has 5 and 5 pairs, 10 ticks apart, with a delay of 20 ticks; *)
(* the others have intervals and delays of a tick or two, or less.         *)

\* DelayTB.initial
DelayRun(n, interval, delay, m) ==
    Program([k \in 1 .. (4 * (n + m)) |->
        IF k % 2 = 0 THEN Wait(interval)
        ELSE Instr("assign", Clk, (IF k % 4 = 1 THEN 1 ELSE 0),
                   IF k <= 4 * n THEN delay ELSE None)])

DelayRuns ==
    {DelayRun(DelayPairs, HalfPeriod * Scale, 2 * HalfPeriod * Scale, DelayPairs)}
    \cup {DelayRun(n, i, d, m) : n \in 1 .. MaxPairs, i \in {1, Scale}, m \in 0 .. MaxPairs,
                                d \in {Scale, Scale + 1, 2 * Scale}}

InitDelay ==
    /\ InitCommon
    /\ sig = CounterSignals(1)
    /\ \E run \in DelayRuns : user = <<CounterRun(1, 1), run>>
    /\ kwargs = CounterBindings(1)
    /\ track = TRUE

\* run(200 time units): the quotient of the two floats is just below 200 and
\* int() takes it to 199; both tick counts are tried
NextDelay ==
    \/ \E until \in {DelayRunTicks * Scale, DelayRunTicks * Scale - 1} :
          RunStart(until, Ascending(2), CounterOrder(1))
    \/ Step(<<>>)

SpecDelay == InitDelay /\ [][NextDelay]_vars

\* the tick at which instruction k of the program is executed
RECURSIVE TickOf(_, _)
TickOf(prog, k) ==
    IF k = 1 THEN 0
    ELSE TickOf(prog, k - 1)
            + (IF prog[k - 1].op = "wait" THEN WaitTicks(prog[k - 1].d) ELSE 0)

\* the assignment that ends the chain of delayed assignments: the first
\* without a delay, or the last of all
FinalAssign ==
    LET prog == user[2].prog
        plain == {k \in DOMAIN prog : prog[k].op = "assign" /\ prog[k].d = None}
        all == {k \in DOMAIN prog : prog[k].op = "assign"}
    IN IF plain # {} THEN CHOOSE k \in plain : \A j \in plain : k <= j
       ELSE CHOOSE k \in all : \A j \in all : j <= k

\* the tick at which the final assignment is due to be committed
FirstCommit ==
    LET i == user[2].prog[FinalAssign]
    IN TickOf(user[2].prog, FinalAssign) + (IF i.d = None THEN 0 ELSE WaitTicks(i.d))

AnyOfTags == {"rising_edge", "event"}
AnyOfWaits == {k * Scale : k \in 1 .. MaxTick}

AnyOfRun(tag) == <<Instr("anyof", <<1, 2>>, tag, None), Instr("assign", 3, 0, None)>>
AnyOfPeer(tag, m) == <<Instr(tag, m, None, None)>>
AnyOfDriver(w, m, d) == <<Wait(w), Instr("assign", m, 1, d)>>
AnyOfTimer(w) == <<Wait(w), Instr("assign", 3, 1, None)>>

InitAnyOf ==
    /\ InitCommon
    /\ sig = [s \in Sigs |-> NewSignal("none", 0)]
    /\ \E tag \in AnyOfTags, m, n \in {1, 2}, w, v \in AnyOfWaits, d \in {None, Scale} :
          user = <<Program(AnyOfRun(tag)), Program(AnyOfPeer(tag, n)),
                   Program(AnyOfDriver(w, m, d)), Program(AnyOfTimer(v))>>
    /\ kwargs = <<>>
    /\ track = TRUE

AnyOfUntil == (MaxTick + 2) * Scale

NextAnyOf ==
    \/ \E procs \in Orders(4) : RunStart(AnyOfUntil, procs, Ascending(NSig))
    \/ Step(<<>>)

SpecAnyOf == InitAnyOf /\ [][NextAnyOf]_vars

\* the triggered conditions of this tick whose waiter is still to be resumed
Triggered ==
    {k \in DOMAIN queue : queue[k].kind = "condition" /\ queue[k].time = now}

\* C25: a process waiting on any-of a set of events is resumed at the tick
\* at which the first member fires, in the urgent pass in which that
\* member's own waiters are resumed: no timeout of that tick resumes a
\* process while the any-of waiter of a member that has fired is still to
\* be resumed, and such a waiter is never left behind by the clock.
C25_AnyOfInUrgentPass ==
    /\ \A k \in DOMAIN queue : queue[k].kind = "condition" => queue[k].time = now
    /\ ~(/\ last.kind = "timeout"
         /\ Resumed(last) # <<>>
         /\ Triggered # {})

(* ------------------------------- buses --------------------------------- *)
(* A chain of n signals, 2 <= n <= NSig, bound by inout ports: port k is   *)
(* bound to k + 1, the last being a plain signal. Process 1 assigns 1 to   *)
(* one signal of the chain, with or without a delay, waits, and assigns a  *)
(* second value; process 2 waits on the change event of the last signal.   *)

BusOf(n, iv) ==
    LET S0 == [s \in 1 .. n |-> IF s = n THEN NewSignal("none", None)
                                ELSE NewSignal("inout", IF s = 1 THEN iv ELSE None)]
        bindings == [k \in 1 .. (n - 1) |-> [port |-> k, other |-> k + 1]]
    IN BindAll([sig |-> S0], bindings).sig

BusDrive(m, d, w, v) ==
    <<Instr("assign", m, 1, d), Wait(w), Instr("assign", m, v, None)>>

InitBus ==
    /\ InitCommon
    /\ \E n \in 2 .. NSig, iv \in {None, 0} : sig = BusOf(n, iv)
    /\ \E m \in DOMAIN sig, d \in {None, Scale}, w \in {Scale, 2 * Scale}, v \in Values :
          user = <<Program(BusDrive(m, d, w, v)),
                   Program(<<Instr("event", Len(sig), None, None)>>)>>
    /\ kwargs = <<>>
    /\ track = TRUE

NextBus ==
    \/ RunStart((MaxTick + 1) * Scale, Ascending(2), Ascending(Len(sig)))
    \/ Step(<<>>)

SpecBus == InitBus /\ [][NextBus]_vars

\* how often the last step committed signal s
CommittedBy(s) == Cardinality({k \in DOMAIN commits : commits[k].s = s})

\* C26: for signals connected by inout bindings in a chain of two or more,
\* an assign on any signal of the chain, an end or the middle, and its
\* commit terminate: no process ends on a RecursionError, and the step that
\* commits commits each signal of the chain exactly once and leaves each
\* holding the assigned value.
C26_BusCommitsOnce ==
    /\ err # "RecursionError"
    /\ \A k \in DOMAIN queue : queue[k].kind = "procend" => queue[k].tag = ""
    /\ commits # <<>> =>
          \A s \in DOMAIN sig : /\ CommittedBy(s) = 1
                                /\ sig[s].value = commits[1].pending

(* --------------------------- commit passes ----------------------------- *)
(* Signal 1 (initial value 0) and the ports 2 .. NSig, of any directions,  *)
(* are bound, connected and disconnected, MaxOps times, before the first   *)
(* run; the one process assigns 1 to one of them, with or without a delay. *)

InitPass ==
    /\ InitCommon
    /\ \E d \in [2 .. NSig -> Directions] :
          sig = [s \in Sigs |-> IF s = 1 THEN NewSignal("none", 0)
                                ELSE NewSignal(d[s], None)]
    /\ \E m \in Sigs, d \in {None, Scale} :
          user = <<Program(<<Instr("assign", m, 1, d)>>)>>
    /\ kwargs = <<>>
    /\ track = FALSE

NextPass ==
    \/ \E a, b \in Sigs : GraphOp("bind", a, b)
    \/ \E a, b \in Sigs : GraphOp("connect", a, b)
    \/ \E a, b \in Sigs : GraphOp("disconnect", a, b)
    \/ RunStart(MaxTick * Scale, Ascending(1), Ascending(NSig))
    \/ Step(<<>>)

SpecPass == InitPass /\ [][NextPass]_vars

\* C31: within one commit pass, the expiry of one delayed-commit action,
\* every signal is committed at most once, for every connection graph that
\* connect and bind can build, graphs where two paths from the triggering
\* signal reconverge on a sink and graphs where bind created an edge twice
\* included.
C31_OncePerPass ==
    \A s \in DOMAIN sig : CommittedBy(s) <= 1

====
